---------------------------- MODULE Spec2Model ----------------------------
(***************************************************************************)
(* Benchmark harness of the DuckDB comparison repository.                  *)
(*                                                                         *)
(* Four command-line programs are modelled, each with the child program    *)
(* it spawns:                                                              *)
(*   "runner" : duckdb_polars_pandas/benchmark_runner.py, whose child (and *)
(*              in-process target) is benchmark_target.py;                 *)
(*   "bench"  : duckdb_polars_pandas/benchmark.py, whose child is          *)
(*              benchmark_engine.py;                                       *)
(*   "engine" : duckdb_polars_pandas/benchmark_engine.py started directly; *)
(*   "stress" : duckdb_polars_stresstest/benchmark.py, whose child is      *)
(*              duckdb_polars_stresstest/benchmark_engine.py.              *)
(*                                                                         *)
(* Text written by a process is a sequence of tokens; numbers are printed  *)
(* and parsed back token by token, so that printing followed by parsing    *)
(* is not the identity by construction.                                    *)
(***************************************************************************)
EXTENDS Integers, Sequences, FiniteSets, TLC

(***************************************************************************)
(* Bounds of the model.                                                    *)
(***************************************************************************)
MaxRuns == 3
MaxWarmup == 2
\* The most pieces (words, line breaks, fields) of a text given to parse_output.
MaxSegments == 5
\* The most file names given to a function of plotter.py.
MaxFiles == 2
\* The most rows of a table given to ArrowTableLoadingBuffer.insert, the
\* largest chunk_size of a buffer, and the most insert calls on one buffer.
MaxRows == 4
MaxChunkSize == 3
MaxInserts == 2

(***************************************************************************)
(* Inputs the environment chooses.                                         *)
(***************************************************************************)
\* What one invocation of the target function does: it raises, or it returns
\* with mem = memory_info().rss after minus before (in MB, may be negative)
\* and t = perf_counter() after minus before (in seconds, never negative).
Behaviours ==
    {[raises |-> FALSE, mem |-> 0 - 3, t |-> 1],
     [raises |-> FALSE, mem |-> 0, t |-> 2],
     [raises |-> FALSE, mem |-> 5, t |-> 3],
     [raises |-> TRUE, mem |-> 0, t |-> 0]}

(***************************************************************************)
(* Text: tokens, printing and parsing of numbers.                          *)
(***************************************************************************)
Word(s) == [k |-> s, v |-> 0]
Num(n) == [k |-> "num", v |-> n]
NL == Word("nl")

\* f"{x:.2f}": a minus sign, when negative, directly followed by the digits.
FormatFloat(x) == IF x < 0 THEN <<Word("-"), Num(0 - x)>> ELSE <<Num(x)>>

\* The first position at or after p that holds no white space (Len + 1 when
\* there is none): what \s* skips.
RECURSIVE SkipWs(_, _)
SkipWs(out, p) ==
    IF p > Len(out) THEN Len(out) + 1
    ELSE IF out[p] = NL THEN SkipWs(out, p + 1)
    ELSE p

IsAt(out, p, s) == p <= Len(out) /\ out[p].k = s

\* The least element of a set of positions, 0 when it is empty.
MinOf(S) == IF S = {} THEN 0 ELSE CHOOSE p \in S : \A q \in S : p <= q

\* A field  key \s* = \s* number \s* unit  matched at position p, piece by
\* piece.  The number is [0-9.]+, with signed also -?[0-9.]+ (the minus sign
\* directly before the digits).  The result is <<position of the digits,
\* position after the unit, sign>>, or <<>> when the field does not match.
MatchUnit(out, pn, p3, unit, sign) ==
    IF IsAt(out, pn, "num") /\ IsAt(out, p3, unit)
    THEN <<pn, p3 + 1, sign>>
    ELSE <<>>

MatchDigits(out, pn, unit, sign) ==
    MatchUnit(out, pn, SkipWs(out, pn + 1), unit, sign)

MatchNumber(out, p2, unit, signed) ==
    IF signed /\ IsAt(out, p2, "-")
    THEN MatchDigits(out, p2 + 1, unit, 0 - 1)
    ELSE MatchDigits(out, p2, unit, 1)

MatchEquals(out, p1, unit, signed) ==
    IF IsAt(out, p1, "=")
    THEN MatchNumber(out, SkipWs(out, p1 + 1), unit, signed)
    ELSE <<>>

MatchField(out, p, key, unit, signed) ==
    IF IsAt(out, p, key)
    THEN MatchEquals(out, SkipWs(out, p + 1), unit, signed)
    ELSE <<>>

\* key\s*=\s*([0-9.]+)\s*unit
MatchUnsigned(out, p, key, unit) == MatchField(out, p, key, unit, FALSE)
\* key\s*=\s*(-?[0-9.]+)\s*unit
MatchSigned(out, p, key, unit) == MatchField(out, p, key, unit, TRUE)

MatchAtOrNone(out, p, key, unit) ==
    IF p = 0 THEN <<>> ELSE MatchUnsigned(out, p, key, unit)

\* re.match in the place of re.search: a match at the start of the text only.
MatchAtStartOnly(out, key, unit) ==
    MatchAtOrNone(out, IF out = <<>> THEN 0 ELSE 1, key, unit)

\* re.search(key\s*=\s*([0-9.]+)\s*unit, out): the leftmost match, or <<>>.
Search(out, key, unit) ==
    MatchAtOrNone(out,
        MinOf({p \in 1..Len(out) : MatchUnsigned(out, p, key, unit) # <<>>}),
        key, unit)

None == <<>>

RunnerPair(output, mem_match, time_match) ==
    IF mem_match # <<>> /\ time_match # <<>>
    THEN <<[mem |-> output[mem_match[1]].v, t |-> output[time_match[1]].v]>>
    ELSE None

\* benchmark_runner.parse_output: None, or <<(memory, time)>>.
RunnerParseOutput(output) ==
    RunnerPair(output, Search(output, "Memory", "MB"), Search(output, "Time", "s"))

\* Where the Time field of a match may start after a Memory field that ends
\* before position from: .*? crosses no line break.
TimeStarts(out, from) ==
    {q \in from..Len(out) :
        /\ MatchUnsigned(out, q, "Time", "s") # <<>>
        /\ \A r \in from..(q - 1) : out[r] # NL}

BenchJoin(out, m, tm) ==
    IF tm = <<>> THEN <<>>
    ELSE <<m[3] * out[m[1]].v, out[tm[1]].v, tm[2]>>

BenchAfterMemory(out, m) ==
    IF m = <<>> THEN <<>>
    ELSE BenchJoin(out, m,
             MatchAtOrNone(out, MinOf(TimeStarts(out, m[2])), "Time", "s"))

\* One match of  Memory\s*=\s*(-?[0-9.]+)\s*MB.*?Time\s*=\s*([0-9.]+)\s*s
\* starting at position p: <<memory, time, position after the match>>, or
\* <<>>.  The lazy .*? stops at the first Time field it can reach.
BenchMatchAt(out, p) == BenchAfterMemory(out, MatchSigned(out, p, "Memory", "MB"))

\* pattern.findall from position p on: the matches, left to right, none
\* overlapping another.
RECURSIVE FindAllFrom(_, _)
FindAllNext(out, m) ==
    <<[mem |-> m[1], t |-> m[2]]>> \o FindAllFrom(out, m[3])

FindAllAt(out, q0) ==
    IF q0 = 0 THEN <<>> ELSE FindAllNext(out, BenchMatchAt(out, q0))

FindAllFrom(out, p) ==
    FindAllAt(out, MinOf({q \in p..Len(out) : BenchMatchAt(out, q) # <<>>}))

\* benchmark.parse_output (and its copy in the stress-test runner): the list
\* of (memory, time) pairs.
BenchParseOutput(output) == FindAllFrom(output, 1)

(***************************************************************************)
(* argparse.  An argument vector is a sequence of strings; a parser is a   *)
(* function from option names to [choices, required, many]: choices is the *)
(* set of accepted values ({} when the option takes an integer), many is   *)
(* nargs="+".                                                              *)
(***************************************************************************)
OptionNames ==
    {"--backend", "--function", "--tool", "--mode", "--runs", "--warmup",
     "--test", "--factor", "--factors", "--num_files", "--scale_factor"}

\* str(n), for the integers the programs pass on a command line.
IntStrings ==
    <<"0", "1", "2", "3", "4", "5", "6", "7", "8", "9", "10">>
BigIntStrings ==
    20 :> "20" @@ 40 :> "40" @@ 80 :> "80" @@ 160 :> "160" @@ 320 :> "320"
    @@ 640 :> "640"
Str(n) == IF n \in DOMAIN BigIntStrings THEN BigIntStrings[n] ELSE IntStrings[n + 1]
\* Whether int(s) succeeds.
IsIntString(s) ==
    \/ \E n \in DOMAIN BigIntStrings : BigIntStrings[n] = s
    \/ \E n \in 1..Len(IntStrings) : IntStrings[n] = s

Opt(choices, required, many) ==
    [choices |-> choices, required |-> required, many |-> many]

\* parse_args(argv) ends the process with status 2 exactly when this is
\* FALSE.
ParseArgsAccepts(parser, argv) ==
    LET at == {k \in 1..Len(argv) : argv[k] \in OptionNames}
        next(k) == IF \E j \in at : j > k
                   THEN CHOOSE j \in at : j > k /\ \A h \in at : h > k => j <= h
                   ELSE Len(argv) + 1
        vals(k) == (k + 1)..(next(k) - 1)
    IN  /\ argv # <<>> => 1 \in at
        /\ \A k \in at :
             /\ argv[k] \in DOMAIN parser
             /\ vals(k) # {}
             /\ parser[argv[k]].many \/ Cardinality(vals(k)) = 1
             /\ \A j \in vals(k) :
                  IF parser[argv[k]].choices = {}
                  THEN IsIntString(argv[j])
                  ELSE argv[j] \in parser[argv[k]].choices
        /\ \A o \in DOMAIN parser :
             parser[o].required => \E k \in at : argv[k] = o

\* The value given for option o (the last one given wins), "" when absent.
ArgValue(argv, o) ==
    LET at == {k \in 1..Len(argv) - 1 : argv[k] = o}
    IN  IF at = {} THEN ""
        ELSE argv[(CHOOSE k \in at : \A j \in at : j <= k) + 1]

(***************************************************************************)
(* benchmark_target.py: the child process of benchmark_runner.py in cold   *)
(* mode, and the function it calls in-process in hot and warm mode.        *)
(***************************************************************************)
RunnerFunctions ==
    {"filtering_and_counting", "filtering_grouping_aggregation",
     "grouping_and_conditional_aggregation"}

TargetParser ==
    "--backend" :> Opt({"duckdb", "polars", "pandas"}, TRUE, FALSE)
    @@ "--function" :> Opt(RunnerFunctions, TRUE, FALSE)

\* The functions each backend module of benchmark_target.py defines.
BasicsFunctions(backend) ==
    IF backend = "duckdb" THEN RunnerFunctions
    ELSE {"purchases_and_count", "purchases_samsung_and_count",
          "total_sales_per_category", "total_sales_per_category_by_brand",
          "purchases_per_event_by_category"}

\* A call's result: the exception that left it ("none" when it returned) and
\* the text it printed.
Returned(out) == [exc |-> "none", out |-> out]
Raised(e, out) == [exc |-> e, out |-> out]

\* benchmark_target.run_benchmark(func): the target prints its result table,
\* then the two fields are printed on a line each.
TargetRunBenchmark(beh) ==
    IF beh.raises THEN Raised("Exception", <<>>)
    ELSE Returned(<<Word("rows"), NL>>
                  \o <<Word("Memory"), Word("=")>> \o FormatFloat(beh.mem)
                  \o <<Word("MB"), NL>>
                  \o <<Word("Time"), Word("=")>> \o FormatFloat(beh.t)
                  \o <<Word("s"), NL>>)

\* The calls run_benchmark(func) makes, in order, until it returns or func
\* raises.
RunBenchmarkEvents(beh) ==
    <<"gc.collect", "time.perf_counter", "get_memory_usage_mb", "func">>
    \o IF beh.raises THEN <<>>
       ELSE <<"get_memory_usage_mb", "time.perf_counter", "print", "print">>

\* Whether main() reaches run_benchmark(func) with sys.argv[1:] = argv.
TargetInvoked(argv) ==
    /\ ParseArgsAccepts(TargetParser, argv)
    /\ ArgValue(argv, "--function") \in BasicsFunctions(ArgValue(argv, "--backend"))

\* benchmark_target.main() with sys.argv[1:] = argv.
TargetMain(argv, beh) ==
    IF ~ParseArgsAccepts(TargetParser, argv)
    THEN Raised("SystemExit", <<Word("usage"), NL>>)
    ELSE IF ArgValue(argv, "--function")
              \notin BasicsFunctions(ArgValue(argv, "--backend"))
    THEN Raised("AttributeError", <<>>)
    ELSE TargetRunBenchmark(beh)

\* A call run as the main program of a process: its exit status and the text
\* on its stdout and stderr together (an uncaught exception leaves a
\* traceback and status 1, argparse's exit leaves status 2).
Process(r) ==
    [status |-> IF r.exc = "none" THEN 0
                ELSE IF r.exc = "SystemExit" THEN 2 ELSE 1,
     output |-> IF r.exc \in {"none", "SystemExit"} THEN r.out
                ELSE r.out \o <<Word("Traceback"), NL>>]

(***************************************************************************)
(* duckdb_polars_pandas/benchmark_engine.py: the child process of          *)
(* benchmark.py, also a program of its own.                                *)
(***************************************************************************)
EngineFunctions ==
    {"filtering_counting", "filtering_grouping_aggregation",
     "grouping_conditional_aggregation"}

EngineParser ==
    "--tool" :> Opt({"duckdb", "polars", "pandas"}, TRUE, FALSE)
    @@ "--function" :> Opt(EngineFunctions, TRUE, FALSE)
    @@ "--mode" :> Opt({"hot", "cold"}, TRUE, FALSE)
    @@ "--runs" :> Opt({}, FALSE, FALSE)

\* int(s) of a command-line value.
IntValue(s) == CHOOSE n \in 0..(Len(IntStrings) - 1) : Str(n) = s

\* "Memory = {:.2f} MB, Time = {:.2f} s": both fields on one line.
EngineLine(beh) ==
    <<Word("Memory"), Word("=")>> \o FormatFloat(beh.mem)
    \o <<Word("MB"), Word(","), Word("Time"), Word("=")>> \o FormatFloat(beh.t)
    \o <<Word("s"), NL>>

\* benchmark_engine.cold_benchmark(func): an exception of func leaves it.
cold_benchmark(beh) ==
    IF beh.raises THEN Raised("Exception", <<>>)
    ELSE Returned(<<Word("rows"), NL>> \o EngineLine(beh))

\* benchmark_engine.hot_benchmark(func, n_runs), from run k on: the text it
\* prints.  An exception of func ends the loop (break).
RECURSIVE hot_benchmark(_, _, _)
hot_benchmark(behs, k, runs) ==
    IF k > runs THEN <<>>
    ELSE <<Word("Run"), NL>>
         \o IF behs[k].raises
            THEN <<Word("Error"), Word("in"), Word("run"), NL>>
            ELSE <<Word("rows"), NL>> \o EngineLine(behs[k])
                 \o <<Word("Memory"), Word("Profiler"), Word("for"), Word("Run"), NL>>
                 \o hot_benchmark(behs, k + 1, runs)

\* The runs of hot_benchmark in which func is called.
RECURSIVE hot_called(_, _, _)
hot_called(behs, k, runs) ==
    IF k > runs THEN {}
    ELSE {k} \cup IF behs[k].raises THEN {} ELSE hot_called(behs, k + 1, runs)

\* The number of runs main() passes on: --runs, 10 by default; a cold run
\* is one call.
EngineRuns(argv) ==
    IF ArgValue(argv, "--mode") = "cold" THEN 1
    ELSE IF ArgValue(argv, "--runs") = "" THEN 10
    ELSE IntValue(ArgValue(argv, "--runs"))

\* benchmark_engine.main() with sys.argv[1:] = argv; behs[k] is what the
\* k-th call of the target does.
EngineMain(argv, behs) ==
    IF ~ParseArgsAccepts(EngineParser, argv)
    THEN Raised("SystemExit", <<Word("usage"), NL>>)
    ELSE IF ArgValue(argv, "--mode") = "cold"
    THEN cold_benchmark(behs[1])
    ELSE Returned(hot_benchmark(behs, 1, EngineRuns(argv)))

\* The runs in which main() called the target.
EngineCalled(argv, behs) ==
    IF ~ParseArgsAccepts(EngineParser, argv) THEN {}
    ELSE IF ArgValue(argv, "--mode") = "cold" THEN {1}
    ELSE hot_called(behs, 1, EngineRuns(argv))

\* The behaviours main() may meet: one per call it can make.
EngineBehaviours(argv) ==
    IF ~ParseArgsAccepts(EngineParser, argv) THEN {<<>>}
    ELSE [1..EngineRuns(argv) -> Behaviours]

(***************************************************************************)
(* duckdb_polars_stresstest/benchmark_engine.py: the child process of the  *)
(* stress-test runner.                                                     *)
(***************************************************************************)
StressEngineParser ==
    "--tool" :> Opt({"duckdb", "polars"}, TRUE, FALSE)
    @@ "--test" :> Opt({"normal", "stress", "multiple"}, FALSE, FALSE)
    @@ "--factor" :> Opt({}, FALSE, FALSE)
    @@ "--factors" :> Opt({}, FALSE, TRUE)
    @@ "--num_files" :> Opt({}, FALSE, FALSE)

\* The test functions each tool module of the stress test defines.
OlapFunctions(tl) ==
    IF tl = "duckdb" THEN {"normal_test", "normal_test_chunked", "stress_test"}
    ELSE {"normal_test", "stress_test", "multiple_test"}

\* The function benchmark() calls for a test.
TestFunction(test) ==
    IF test = "stress" THEN "stress_test"
    ELSE IF test = "multiple" THEN "multiple_test"
    ELSE "normal_test"

\* benchmark_engine.benchmark(tool, test, ...): an Exception of the test is
\* caught and reported, and the function returns without printing the fields.
StressEngineBenchmark(tl, test, beh) ==
    IF beh.raises \/ TestFunction(test) \notin OlapFunctions(tl)
    THEN Returned(<<Word("Error"), Word("running"), Word("benchmark"), NL>>)
    ELSE Returned(<<Word("rows"), NL>> \o EngineLine(beh))

\* Whether main() of the stress test calls a test function of the tool with
\* sys.argv[1:] = argv.
StressEngineInvoked(argv) ==
    /\ ParseArgsAccepts(StressEngineParser, argv)
    /\ TestFunction(IF ArgValue(argv, "--test") = "" THEN "normal"
                    ELSE ArgValue(argv, "--test"))
          \in OlapFunctions(ArgValue(argv, "--tool"))

\* benchmark_engine.main() of the stress test with sys.argv[1:] = argv.
StressEngineMain(argv, beh) ==
    IF ~ParseArgsAccepts(StressEngineParser, argv)
    THEN Raised("SystemExit", <<Word("usage"), NL>>)
    ELSE StressEngineBenchmark(
             ArgValue(argv, "--tool"),
             IF ArgValue(argv, "--test") = "" THEN "normal"
             ELSE ArgValue(argv, "--test"),
             beh)

(***************************************************************************)
(* duckdb_polars_pandas_stresstest/benchmark_engine.py, the child process  *)
(* of duckdb_polars_pandas_stresstest/benchmark.py.                        *)
(***************************************************************************)
PandasStressEngineParser ==
    "--tool" :> Opt({"duckdb", "polars", "pandas"}, TRUE, FALSE)
    @@ "--scale_factor" :> Opt({}, FALSE, FALSE)

\* benchmark_engine.main() with sys.argv[1:] = argv: cold_benchmark(module)
\* calls total_sales_per_region of the tool's module.
PandasStressEngineMain(argv, beh) ==
    IF ~ParseArgsAccepts(PandasStressEngineParser, argv)
    THEN Raised("SystemExit", <<Word("usage"), NL>>)
    ELSE cold_benchmark(beh)

(***************************************************************************)
(* The summary and the result file.                                        *)
(***************************************************************************)
Min(S) == CHOOSE x \in S : \A y \in S : x <= y
Max(S) == CHOOSE x \in S : \A y \in S : y <= x
Range(f) == {f[x] : x \in DOMAIN f}

\* summarize(label, values): what it prints.
summarize(label, values) ==
    IF values = <<>>
    THEN <<[label |-> label, text |-> "No data.", min |-> 0, max |-> 0, span |-> 0]>>
    ELSE <<[label |-> label, text |-> "stats", min |-> Min(Range(values)),
            max |-> Max(Range(values)),
            span |-> Max(Range(values)) - Min(Range(values))]>>

\* The numbers summarize computes.  The mean is the fraction sum / n; std and
\* cv are kept as their squares, fractions [num, den] with den > 0, so that
\* the arithmetic stays in the fractions: a number is 0 exactly when its
\* square is.
Frac(n, d) == [num |-> n, den |-> d]

RECURSIVE Sum(_)
Sum(values) == IF values = <<>> THEN 0 ELSE Head(values) + Sum(Tail(values))

\* statistics.mean(values) of a non-empty list, as the exact fraction sum / n.
Mean(values) == [sum |-> Sum(values), n |-> Len(values)]

RECURSIVE SumOfSquares(_)
SumOfSquares(values) ==
    IF values = <<>> THEN 0
    ELSE Head(values) * Head(values) + SumOfSquares(Tail(values))

\* statistics.stdev(values), squared: the sample variance; StatisticsError with
\* fewer than two values.
StdevSquared(values) ==
    IF Len(values) < 2 THEN Raised("StatisticsError", Frac(0, 1))
    ELSE Returned(Frac(Len(values) * SumOfSquares(values) - Sum(values) * Sum(values),
                       Len(values) * (Len(values) - 1)))

\* (a / b) * 100, squared, for a given as its square a2: ZeroDivisionError
\* when b is 0.
PercentSquared(a2, b) ==
    IF b.sum = 0 THEN Raised("ZeroDivisionError", Frac(0, 1))
    ELSE Returned(Frac(10000 * a2.num * b.n * b.n, a2.den * b.sum * b.sum))

\* A summary that divides by the mean whatever it is.
Always(mean) == TRUE

\* The condition of the cv line: `mean != 0` (benchmark_runner.py), `mean`
\* (benchmark.py).
MeanIsNotZero(mean) == mean.sum # 0

\* The std of summarize, squared: 0.0 unless len(values) > 1.
StdSquared(values) ==
    IF Len(values) > 1 THEN StdevSquared(values) ELSE Returned(Frac(0, 1))

\* The cv of summarize, squared, for the std given as its square: 0 unless
\* the mean is not 0.
CvSquared(std2, mean) ==
    IF MeanIsNotZero(mean) THEN PercentSquared(std2, mean) ELSE Returned(Frac(0, 1))

\* summarize(label, values): the statistics it computes before it prints
\* them, and the exception that ends it, if any.
Statistics(values) ==
    IF values = <<>> THEN [exc |-> "none", text |-> "No data."]
    ELSE IF StdSquared(values).exc # "none"
    THEN [exc |-> StdSquared(values).exc, text |-> ""]
    ELSE IF CvSquared(StdSquared(values).out, Mean(values)).exc # "none"
    THEN [exc |-> CvSquared(StdSquared(values).out, Mean(values)).exc, text |-> ""]
    ELSE [exc |-> "none", text |-> "stats",
          mean |-> Mean(values),
          std2 |-> StdSquared(values).out,
          cv2 |-> CvSquared(StdSquared(values).out, Mean(values)).out]

\* summarize of the stress-test runner, over the means of the factors.
StressSummarize(label, values) ==
    <<[label |-> label, text |-> IF values = <<>> THEN "No data." ELSE "stats",
       min |-> 0, max |-> 0, span |-> 0]>>

\* An export that numbers the rows as enumerate() does by default, from 0.
ExportNumberedFromZero(backend, function, md, mems, ts) ==
    [header |-> <<"backend", "function", "mode", "run", "memory_mb", "time_s">>,
     rows |-> [k \in 1..MinOf({Len(mems), Len(ts)}) |->
                 [id |-> <<backend, function, md>>, run |-> k - 1,
                  memory_mb |-> FormatFloat(mems[k]), time_s |-> FormatFloat(ts[k])]]]

\* csv.writer writes a number as str(number).
CsvCell(x) == FormatFloat(x)
\* What reading a cell back as a number gives.
CellValue(c) == IF c[1].k = "-" THEN 0 - c[2].v ELSE c[1].v

\* enumerate(zip(memories, times), 1)
ZipLen(a, b) == IF Len(a) <= Len(b) THEN Len(a) ELSE Len(b)

\* benchmark_runner.export_results_csv: the file it writes.
RunnerExportResultsCsv(backend, function, md, mems, ts) ==
    [header |-> <<"backend", "function", "mode", "run", "memory_mb", "time_s">>,
     rows |-> [k \in 1..ZipLen(mems, ts) |->
                 [id |-> <<backend, function, md>>, run |-> k,
                  memory_mb |-> CsvCell(mems[k]), time_s |-> CsvCell(ts[k])]]]

\* benchmark.export_results_csv: the file it writes.
BenchExportResultsCsv(tl, md, mems, ts) ==
    [header |-> <<"tool", "mode", "run", "memory_mb", "time_s">>,
     rows |-> [k \in 1..ZipLen(mems, ts) |->
                 [id |-> <<tl, md>>, run |-> k,
                  memory_mb |-> CsvCell(mems[k]), time_s |-> CsvCell(ts[k])]]]

\* The number of rows zip() gives for the five lists of the stress test.
ZipLen5(x) ==
    Min({Len(x.scales), Len(x.memories), Len(x.times), Len(x.row_counts),
         Len(x.sizes)})

\* export_results_csv of the stress-test runner: the file it writes.
StressExportResultsCsv(tl, test, lists) ==
    [header |-> <<"tool", "test", "scale_factor", "memory_mb", "time_s",
                  "row_count", "dataset_size_mb">>,
     rows |-> [k \in 1..ZipLen5(lists) |->
                 [id |-> <<tl, test>>, scale_factor |-> lists.scales[k],
                  memory_mb |-> lists.memories[k], time_s |-> lists.times[k],
                  row_count |-> lists.row_counts[k],
                  dataset_size_mb |-> lists.sizes[k]]]]

\* A result file left by an earlier session.
StaleFile ==
    [header |-> <<"backend", "function", "mode", "run", "memory_mb", "time_s">>,
     rows |-> <<[id |-> <<"old", "old", "old">>, run |-> 1,
                 memory_mb |-> CsvCell(7), time_s |-> CsvCell(7)],
                [id |-> <<"old", "old", "old">>, run |-> 2,
                 memory_mb |-> CsvCell(7), time_s |-> CsvCell(7)]>>]

(***************************************************************************)
(* plotter.py.  A table (DataFrame) is [columns, rows]: the set of its     *)
(* column names and the sequence of its rows, a row being a function from  *)
(* the column names to cells.  A cell is the text of the file; "NaN" is    *)
(* the missing value.                                                      *)
(***************************************************************************)
BenchColumns == {"tool", "mode", "run", "memory_mb", "time_s"}
RunnerColumns == {"backend", "function", "mode", "run", "memory_mb", "time_s"}

\* The file benchmark.export_results_csv writes for n records of a tool.
BenchFile(tl, n) ==
    [columns |-> BenchColumns,
     rows |-> [k \in 1..n |->
                 [tool |-> tl, mode |-> "cold", run |-> Str(k),
                  memory_mb |-> Str(k + 4), time_s |-> Str(k)]]]

\* The file benchmark_runner.export_results_csv writes for n records.
RunnerFile(backend, n) ==
    [columns |-> RunnerColumns,
     rows |-> [k \in 1..n |->
                 [backend |-> backend, function |-> "filtering_and_counting",
                  mode |-> "cold", run |-> Str(k), memory_mb |-> Str(k + 6),
                  time_s |-> Str(k)]]]

\* The files that exist, by path.
FileSystem ==
    "results/duckdb_cold.csv" :> BenchFile("duckdb", 2)
    @@ "results/polars_cold.csv" :> BenchFile("polars", 1)
    @@ "results/pandas_cold.csv" :> BenchFile("pandas", 0)
    @@ "archive/duckdb_cold.csv" :> BenchFile("duckdb", 1)
    @@ "duckdb_filtering_and_counting_cold.csv" :> RunnerFile("duckdb", 1)

\* The paths a caller may name; the last one names no file.
Paths == DOMAIN FileSystem \cup {"results/missing.csv"}

\* os.path.isfile(path)
IsFile(path) == path \in DOMAIN FileSystem

\* os.path.splitext(os.path.basename(path))[0]
BaseNameWithoutExt ==
    "results/duckdb_cold.csv" :> "duckdb_cold"
    @@ "results/polars_cold.csv" :> "polars_cold"
    @@ "results/pandas_cold.csv" :> "pandas_cold"
    @@ "archive/duckdb_cold.csv" :> "duckdb_cold"
    @@ "duckdb_filtering_and_counting_cold.csv" :> "duckdb_filtering_and_counting_cold"
    @@ "results/missing.csv" :> "missing"

\* df['source'] = value: the column is added, or overwritten, in every row.
WithSource(df, value) ==
    [columns |-> df.columns \cup {"source"},
     rows |-> [k \in DOMAIN df.rows |->
                 [c \in df.columns \cup {"source"} |->
                     IF c = "source" THEN value ELSE df.rows[k][c]]]]

\* The row r with the columns cols: a column r does not have holds NaN.
Reindexed(r, cols) == [c \in cols |-> IF c \in DOMAIN r THEN r[c] ELSE "NaN"]

\* A concatenation that puts the rows of a later table first.
RECURSIVE ConcatRowsLastFirst(_, _)
ConcatRowsLastFirst(dfs, cols) ==
    IF dfs = <<>> THEN <<>>
    ELSE ConcatRowsLastFirst(Tail(dfs), cols)
         \o [k \in DOMAIN Head(dfs).rows |-> Reindexed(Head(dfs).rows[k], cols)]

\* pd.concat(dfs, ignore_index=True): the union of the columns, the rows of
\* the tables one table after the other.
RECURSIVE ConcatRows(_, _)
ConcatRows(dfs, cols) ==
    IF dfs = <<>> THEN <<>>
    ELSE [k \in DOMAIN Head(dfs).rows |-> Reindexed(Head(dfs).rows[k], cols)]
         \o ConcatRows(Tail(dfs), cols)

Concat(dfs) ==
    IF dfs = <<>> THEN Raised("ValueError", <<>>)
    ELSE Returned([columns |-> UNION {dfs[k].columns : k \in DOMAIN dfs},
                   rows |-> ConcatRows(dfs,
                              UNION {dfs[k].columns : k \in DOMAIN dfs})])

\* plotter.load_and_concat_csvs: the loop from file k on, dfs being the tables
\* read so far.  The result is [exc, out], out the table when exc = "none".
RECURSIVE LoadFrom(_, _, _, _)
LoadFrom(csv_files, k, add_source, dfs) ==
    IF k > Len(csv_files) THEN Concat(dfs)
    ELSE IF ~IsFile(csv_files[k]) THEN Raised("FileNotFoundError", <<>>)
    ELSE LoadFrom(csv_files, k + 1, add_source,
             Append(dfs, IF add_source
                         THEN WithSource(FileSystem[csv_files[k]],
                                         BaseNameWithoutExt[csv_files[k]])
                         ELSE FileSystem[csv_files[k]]))

load_and_concat_csvs(csv_files, add_source) == LoadFrom(csv_files, 1, add_source, <<>>)

\* plotter.check_required_columns raises ValueError exactly when this is FALSE.
HasRequiredColumns(df, required_cols) == required_cols \subseteq df.columns

\* What a plotting function leaves: the exception that left it, whether a
\* figure was drawn, and the rows the figure shows.
Plot(e, drawn, shown) == [exc |-> e, figure |-> drawn, rows |-> shown]

\* _ensure_numeric: the rows without a missing run, time_s or memory_mb.
EnsureNumeric(df) ==
    SelectSeq(df.rows, LAMBDA r : r["run"] # "NaN" /\ r["time_s"] # "NaN"
                                    /\ r["memory_mb"] # "NaN")

\* plotter.plot_lines: no figure, and no error, when no row is left.
plot_lines(df) ==
    IF EnsureNumeric(df) = <<>> THEN Plot("none", FALSE, <<>>)
    ELSE Plot("none", TRUE, EnsureNumeric(df))

\* plotter.plot_results
plot_results(output_file) ==
    IF ~IsFile(output_file) THEN Plot("FileNotFoundError", FALSE, <<>>)
    ELSE IF ~HasRequiredColumns(FileSystem[output_file],
                                {"tool", "run", "time_s", "memory_mb"})
    THEN Plot("ValueError", FALSE, <<>>)
    ELSE plot_lines(FileSystem[output_file])

\* plotter.plot_results_multi, after load_and_concat_csvs gave loaded.
PlotLoaded(loaded) ==
    IF loaded.exc # "none" THEN Plot(loaded.exc, FALSE, <<>>)
    ELSE IF ~HasRequiredColumns(loaded.out,
                                {"tool", "run", "time_s", "memory_mb", "source"})
    THEN Plot("ValueError", FALSE, <<>>)
    ELSE plot_lines(loaded.out)

plot_results_multi(csv_files) == PlotLoaded(load_and_concat_csvs(csv_files, TRUE))

\* plotter.barcharts, after load_and_concat_csvs gave loaded: the means by
\* tool, 0 for a tool without a value, are always drawn.
BarchartsLoaded(loaded) ==
    IF loaded.exc # "none" THEN Plot(loaded.exc, FALSE, <<>>)
    ELSE IF ~HasRequiredColumns(loaded.out,
                                {"tool", "run", "time_s", "memory_mb", "source"})
    THEN Plot("ValueError", FALSE, <<>>)
    ELSE Plot("none", TRUE, loaded.out.rows)

barcharts(csv_files) == BarchartsLoaded(load_and_concat_csvs(csv_files, TRUE))

(***************************************************************************)
(* State.                                                                  *)
(***************************************************************************)
VARIABLES
    prog,       \* the program this session runs
    tool,       \* --backend / --tool
    mode,       \* --mode / --test
    n_runs,     \* --runs
    n_warmup,   \* --warmup
    pc,         \* where the session function is
    w,          \* warm-up runs done
    i,          \* measured runs done
    child,      \* <<argv>> of the child process that is alive, or <<>>
    run_output, \* the text captured from the last process that ended
    memories,   \* the session's list of memory values
    times,      \* the session's list of time values
    calls,      \* every invocation of a target so far, in order
    console,    \* what the session has printed on its real output stream
    csvfile,    \* <<content>> of the session's result file, or <<>>
    outer,      \* stress test: scale factors or file counts done
    tmp,        \* stress test: mem_tmp, t_tmp, rows, size, scale of the factor
    extra,      \* stress test: the lists row_counts, sizes, scales
    exc,        \* the exception that ended the session, "none" otherwise
    fn,         \* the function called on its own, "none" in a session
    args,       \* the arguments of that call
    result,     \* what the call returned or raised
    stdout,     \* the stream sys.stdout is in the session's process
    stderr,     \* the stream sys.stderr is in the session's process
    captured,   \* what the last run wrote into its capture buffer
    log_writers, \* the processes that hold results/benchmark_log.txt open for writing
    loader      \* the ArrowTableLoadingBuffer and its destination table, or <<>>

vars == <<prog, tool, mode, n_runs, n_warmup, pc, w, i, child, run_output,
          memories, times, calls, console, csvfile, outer, tmp, extra, exc,
          fn, args, result, stdout, stderr, captured, log_writers, loader>>

\* The file of each program that installs a Logger when it is loaded: the
\* Logger opens results/benchmark_log.txt for writing.
ProgramFile(p) ==
    IF p = "bench" THEN "duckdb_polars_pandas/benchmark.py"
    ELSE IF p = "engine" THEN "duckdb_polars_pandas/benchmark_engine.py"
    ELSE "duckdb_polars_stresstest/benchmark.py"

\* The file of the child program each runner starts: it installs a Logger on
\* the same results/benchmark_log.txt when it is loaded, before main() runs.
ChildFile(p) ==
    IF p = "stress" THEN "duckdb_polars_stresstest/benchmark_engine.py"
    ELSE "duckdb_polars_pandas/benchmark_engine.py"

RunnerFunction == "filtering_and_counting"

RunnerInit ==
    /\ prog = "runner"
    /\ tool \in {"duckdb", "polars"}
    /\ mode \in {"cold", "hot", "warm"}
    /\ n_runs \in 0..MaxRuns
    /\ n_warmup \in 0..MaxWarmup
    /\ mode # "warm" => n_warmup = 0
    /\ pc = IF mode = "warm" THEN "warmup" ELSE "loop"
    /\ child = <<>>

EngineFunction == "filtering_counting"

\* The argument vector benchmark.py builds for benchmark_engine.py.
BenchArgs(tl, md, runs) ==
    <<"--tool", tl, "--mode", md>>
    \o IF md = "hot" THEN <<"--runs", Str(runs)>> ELSE <<>>

\* An argument vector a user starts benchmark_engine.py with.
EngineUserArgs(tl, function, md, runs) ==
    <<"--tool", tl, "--function", function, "--mode", md, "--runs", Str(runs)>>

BenchInit ==
    /\ prog = "bench"
    /\ tool \in {"duckdb", "polars"}
    /\ mode \in {"cold", "hot"}
    /\ n_runs \in 0..MaxRuns
    /\ n_warmup = 0
    /\ pc = "loop"
    /\ child = <<>>

EngineInit ==
    /\ prog = "engine"
    /\ tool = "duckdb"
    /\ mode \in {"cold", "hot"}
    /\ n_runs \in 0..MaxRuns
    /\ n_warmup = 0
    /\ pc = "main"
    /\ child = <<EngineUserArgs(tool, EngineFunction, mode, n_runs)>>

\* Constants of the stress-test runner.
RunsPerFactor == 10
ScaleFactors == <<10, 20, 40, 80, 160, 320, 640>>
StressBig == [factor |-> 640, factor_range |-> <<1, 2, 3, 4, 6, 8, 10>>]
StressSmall == [factor |-> 10, factor_range |-> <<1, 2, 4, 8, 18, 36, 72>>]

EmptyTmp == [mem_tmp |-> <<>>, t_tmp |-> <<>>, rows |-> 0, size |-> 0, scale |-> 0]
EmptyExtra == [row_counts |-> <<>>, sizes |-> <<>>, scales |-> <<>>]

StressInit ==
    /\ prog = "stress"
    /\ tool \in {"duckdb", "polars"}
    /\ mode \in {"normal", "stress-big", "stress-small"}
    /\ n_runs = 0
    /\ n_warmup = 0
    /\ pc = "loop"
    /\ child = <<>>

Init ==
    /\ (RunnerInit \/ BenchInit \/ EngineInit \/ StressInit)
    /\ outer = 0
    /\ tmp = EmptyTmp
    /\ extra = EmptyExtra
    /\ w = 0
    /\ i = 0
    /\ run_output = <<>>
    /\ memories = <<>>
    /\ times = <<>>
    /\ calls = <<>>
    /\ console = <<>>
    /\ csvfile \in {<<>>, <<StaleFile>>}
    /\ exc = "none"
    /\ fn = "none"
    /\ args = <<>>
    /\ result = <<>>
    /\ stdout = (IF prog = "runner" THEN "terminal" ELSE "Logger")
    /\ stderr = stdout
    /\ captured = <<>>
    /\ log_writers = (IF prog = "runner" THEN {} ELSE {ProgramFile(prog)})
    /\ loader = <<>>

\* A run without a handler: what it raises leaves the session function.
NoExceptHandler(e) == FALSE

\* "except Exception" catches what a run raised; SystemExit is not an
\* Exception and passes through it.
ExceptException(e) == e \notin {"none", "SystemExit"}

\* An entry of calls: run number run of its kind, what the target did (beh)
\* and the exception that left the call ("none" when it returned).
Call(kind, run, beh, r) ==
    [kind |-> kind, run |-> run, raises |-> beh.raises, mem |-> beh.mem,
     t |-> beh.t, exc |-> r.exc]

Msg(text) == [label |-> "", text |-> text, min |-> 0, max |-> 0, span |-> 0]

\* The argument vector benchmark_runner.py builds for benchmark_target.py.
RunnerArgs(backend, function) ==
    <<"--backend", backend, "--function", function>>

(***************************************************************************)
(* benchmark_runner.run_cold_benchmark                                     *)
(***************************************************************************)
\* A launch that does not wait for the child before it: subprocess.Popen in
\* the place of subprocess.check_output.
RunnerColdSpawnWithoutWaiting ==
    /\ prog = "runner" /\ mode = "cold" /\ pc = "loop"
    /\ i + Len(child) < n_runs
    /\ child' = Append(child, RunnerArgs(tool, RunnerFunction))
    /\ UNCHANGED <<stdout, stderr, captured, log_writers, loader, fn, args, result, outer, tmp, extra, prog, tool, mode, n_runs, n_warmup,
                   pc, w, i, run_output, memories, times, calls, console, csvfile, exc>>

\* subprocess.check_output starts the child of run i + 1.
RunnerColdSpawn ==
    /\ prog = "runner" /\ mode = "cold" /\ pc = "loop"
    /\ i < n_runs /\ child = <<>>
    /\ child' = <<RunnerArgs(tool, RunnerFunction)>>
    /\ UNCHANGED <<stdout, stderr, captured, log_writers, loader, fn, args, result, outer, tmp, extra, prog, tool, mode, n_runs, n_warmup, pc, w, i, run_output,
                   memories, times, calls, console, csvfile, exc>>

\* The handler of CalledProcessError reads e.run_output, an attribute the
\* exception does not have: the AttributeError leaves run_cold_benchmark.
RunnerColdOnCalledProcessError ==
    /\ pc' = "aborted"
    /\ exc' = "AttributeError"
    /\ UNCHANGED <<memories, times, console>>

\* An unparsable output handled as an error that leaves the session function.
RunnerColdUnparsableRaises ==
    /\ pc' = "aborted"
    /\ exc' = "ValueError"
    /\ UNCHANGED <<memories, times, console>>

\* An unparsable output that still leaves a value in one of the two lists.
RunnerColdUnparsableRecordsTime ==
    /\ console' = Append(console, Msg("Warning: Could not parse output!"))
    /\ times' = Append(times, 0)
    /\ UNCHANGED <<memories, pc, exc>>

\* parse_output returned None: a warning, and the loop goes on.
RunnerColdOnUnparsable ==
    /\ console' = Append(console, Msg("Warning: Could not parse output!"))
    /\ UNCHANGED <<memories, times, pc, exc>>

\* The child exits; check_output returns its output or raises.
RunnerColdWait ==
    /\ prog = "runner" /\ mode = "cold" /\ pc = "loop"
    /\ child # <<>>
    /\ \E beh \in Behaviours :
         LET r == TargetMain(child[1], beh)
             p == Process(r)
             parsed == RunnerParseOutput(p.output)
         IN  /\ calls' = Append(calls, Call("measured", i + 1, beh, r))
             /\ run_output' = p.output
             /\ IF p.status # 0
                THEN RunnerColdOnCalledProcessError
                ELSE IF parsed # None
                THEN /\ memories' = Append(memories, parsed[1].mem)
                     /\ times' = Append(times, parsed[1].t)
                     /\ console' = Append(console, Msg("Memory, Time"))
                     /\ UNCHANGED <<pc, exc>>
                ELSE RunnerColdOnUnparsable
    /\ child' = <<>>
    /\ i' = i + 1
    /\ UNCHANGED <<stdout, stderr, captured, log_writers, loader, fn, args, result, outer, tmp, extra, prog, tool, mode, n_runs, n_warmup, w, csvfile>>

\* The target of the child never returns.  check_output is called without a
\* timeout, so it never raises TimeoutExpired: the session stays in the call
\* for as long as the child lives.
RunnerColdChildNeverExits ==
    /\ prog = "runner" /\ mode = "cold" /\ pc = "loop"
    /\ child # <<>>
    /\ ParseArgsAccepts(TargetParser, child[1])
    /\ ArgValue(child[1], "--function") \in BasicsFunctions(ArgValue(child[1], "--backend"))
    /\ pc' = "blocked"
    /\ UNCHANGED <<stdout, stderr, captured, log_writers, loader, fn, args, result, outer, tmp, extra, prog, tool, mode, n_runs, n_warmup,
                   w, i, child, run_output, memories, times, calls, console, csvfile, exc>>

\* After the loop: the summary and the export.
RunnerColdFinish ==
    /\ prog = "runner" /\ mode = "cold" /\ pc = "loop"
    /\ i >= n_runs /\ child = <<>>
    /\ console' = console \o <<Msg("Benchmark Finished!")>>
                    \o summarize("Elapsed Time (s)", times)
                    \o summarize("Memory Used (MB)", memories)
    /\ csvfile' = <<RunnerExportResultsCsv(tool, RunnerFunction, mode, memories, times)>>
    /\ pc' = "done"
    /\ UNCHANGED <<stdout, stderr, captured, log_writers, loader, fn, args, result, outer, tmp, extra, prog, tool, mode, n_runs, n_warmup, w, i, child,
                   run_output, memories, times, calls, exc>>

(***************************************************************************)
(* benchmark_runner.benchmarking, run_hot_benchmark, run_warm_benchmark    *)
(***************************************************************************)
\* print(msg) while sys.stdout is stream, out being [console, captured]: the
\* text goes into the StringIO buffer, to os.devnull, or to the real stream.
PrintOn(stream, out, msg) ==
    IF stream = "StringIO" THEN [out EXCEPT !.captured = Append(@, msg)]
    ELSE IF stream = "devnull" THEN out
    ELSE [out EXCEPT !.console = Append(@, msg)]

RECURSIVE PrintAllOn(_, _, _)
PrintAllOn(stream, out, msgs) ==
    IF msgs = <<>> THEN out
    ELSE PrintAllOn(stream, PrintOn(stream, out, Head(msgs)), Tail(msgs))

\* A stream put back after the try block only, without a finally clause: an
\* exception leaves the redirection in place.
RestoredOnReturnOnly(old, during, raised) == IF raised THEN during ELSE old

\* finally: sys.stdout = old_stdout (sys.stderr = old_stderr), whether the
\* try block returned or raised.
Restored(old, during, raised) == old

\* One warm-up run: output goes to os.devnull, an Exception is passed over.
RunnerWarmupRun ==
    /\ prog = "runner" /\ mode = "warm" /\ pc = "warmup"
    /\ w < n_warmup
    /\ \E beh \in Behaviours :
         LET r == TargetMain(RunnerArgs(tool, RunnerFunction), beh)
         IN  /\ calls' = Append(calls, Call("warmup", w + 1, beh, r))
             /\ stdout' = Restored(stdout, "devnull", r.exc # "none")
             /\ stderr' = Restored(stderr, "devnull", r.exc # "none")
             /\ IF r.exc # "none" /\ ~ExceptException(r.exc)
                THEN pc' = "aborted" /\ exc' = r.exc
                ELSE UNCHANGED <<pc, exc>>
    /\ w' = w + 1
    /\ UNCHANGED <<captured, log_writers, loader, fn, args, result, outer, tmp, extra, prog, tool, mode, n_runs, n_warmup, i, child, run_output,
                   memories, times, console, csvfile>>

\* The warm-up loop is over: the measured runs start with empty lists.
RunnerWarmupComplete ==
    /\ prog = "runner" /\ mode = "warm" /\ pc = "warmup"
    /\ w >= n_warmup
    /\ console' = Append(console, Msg("Warmup complete. Starting measured runs."))
    /\ memories' = <<>>
    /\ times' = <<>>
    /\ pc' = "loop"
    /\ UNCHANGED <<stdout, stderr, captured, log_writers, loader, fn, args, result, outer, tmp, extra, prog, tool, mode, n_runs, n_warmup, w, i, child, run_output,
                   calls, csvfile, exc>>

\* A loop that makes a failed run again.
RetryFailedRun(k, failed) == IF failed THEN k ELSE k + 1

\* for i in range(n_runs): the next run, whether run k + 1 failed or not.
NextRun(k, failed) == k + 1

\* What the try statement of benchmarking() prints after the target: the
\* captured text when main() returned, then the warning of an unparsable
\* text, or the report of the except clause.
HotRunPrints(r, parsed) ==
    IF r.exc = "none"
    THEN <<Msg("run_output")>>
         \o IF parsed # None THEN <<>> ELSE <<Msg("Warning: Could not parse output!")>>
    ELSE IF ExceptException(r.exc) THEN <<Msg("Run failed")>> ELSE <<>>

\* One iteration of benchmarking(): sys.stdout is a StringIO from before the
\* try statement until its finally clause, so what the try block and the
\* except clause print goes where sys.stdout points then.
RunnerHotRun ==
    /\ prog = "runner" /\ mode \in {"hot", "warm"} /\ pc = "loop"
    /\ i < n_runs
    /\ \E beh \in Behaviours :
         LET r == TargetMain(RunnerArgs(tool, RunnerFunction), beh)
             parsed == RunnerParseOutput(r.out)
             printed == PrintAllOn("StringIO",
                                   [console |-> console, captured |-> <<>>],
                                   HotRunPrints(r, parsed))
         IN  /\ calls' = Append(calls, Call("measured", i + 1, beh, r))
             /\ i' = NextRun(i, r.exc # "none")
             /\ run_output' = r.out
             /\ console' = printed.console
             /\ captured' = printed.captured
             /\ stdout' = Restored(stdout, "StringIO", r.exc # "none")
             /\ IF r.exc = "none" /\ parsed # None
                THEN /\ memories' = Append(memories, parsed[1].mem)
                     /\ times' = Append(times, parsed[1].t)
                ELSE UNCHANGED <<memories, times>>
             /\ IF r.exc # "none" /\ ~ExceptException(r.exc)
                THEN pc' = "aborted" /\ exc' = r.exc
                ELSE UNCHANGED <<pc, exc>>
    /\ UNCHANGED <<stderr, log_writers, loader, fn, args, result, outer, tmp, extra, prog, tool, mode, n_runs, n_warmup, w, child,
                   csvfile>>

\* After the loop: the summary in benchmarking(), the export in its caller.
RunnerHotFinish ==
    /\ prog = "runner" /\ mode \in {"hot", "warm"} /\ pc = "loop"
    /\ i >= n_runs
    /\ console' = console \o <<Msg("Benchmark Finished!")>>
                    \o summarize("Elapsed Time (s)", times)
                    \o summarize("Memory Used (MB)", memories)
    /\ csvfile' = <<RunnerExportResultsCsv(tool, RunnerFunction, mode, memories, times)>>
    /\ pc' = "done"
    /\ UNCHANGED <<stdout, stderr, captured, log_writers, loader, fn, args, result, outer, tmp, extra, prog, tool, mode, n_runs, n_warmup, w, i, child,
                   run_output, memories, times, calls, exc>>

(***************************************************************************)
(* benchmark_engine.py run by a user                                       *)
(***************************************************************************)
\* The calls of the target a process made, in order.
EngineCalls(argv, behs, r) ==
    [k \in 1..Cardinality(EngineCalled(argv, behs)) |->
        Call("measured", k, behs[k], IF behs[k].raises THEN r ELSE Returned(<<>>))]

EngineExit ==
    /\ prog = "engine" /\ pc = "main"
    /\ child # <<>>
    /\ \E behs \in EngineBehaviours(child[1]) :
         LET r == EngineMain(child[1], behs)
         IN  /\ run_output' = Process(r).output
             /\ calls' = calls \o EngineCalls(child[1], behs, Raised("Exception", <<>>))
             /\ exc' = r.exc
             /\ pc' = IF r.exc = "none" THEN "done" ELSE "aborted"
    /\ child' = <<>>
    /\ log_writers' = {}
    /\ UNCHANGED <<stdout, stderr, captured, loader, fn, args, result, outer, tmp, extra, prog, tool, mode, n_runs, n_warmup, w, i, memories, times,
                   console, csvfile>>

(***************************************************************************)
(* benchmark.run_benchmark                                                 *)
(***************************************************************************)
\* Cold mode: subprocess.check_output starts the child of run i + 1.
BenchColdSpawn ==
    /\ prog = "bench" /\ mode = "cold" /\ pc = "loop"
    /\ i < n_runs /\ child = <<>>
    /\ child' = <<BenchArgs(tool, mode, n_runs)>>
    /\ log_writers' = log_writers \cup {ChildFile(prog)}
    /\ UNCHANGED <<stdout, stderr, captured, loader, fn, args, result, outer, tmp, extra, prog, tool, mode, n_runs, n_warmup, pc, w, i, run_output,
                   memories, times, calls, console, csvfile, exc>>

\* except subprocess.CalledProcessError, around the whole loop.
BenchOnCalledProcessError ==
    /\ console' = Append(console, Msg("Run failed"))
    /\ pc' = "summary"
    /\ UNCHANGED <<memories, times>>

\* Cold mode: the child exits; check_output returns its output or raises.
BenchColdWait ==
    /\ prog = "bench" /\ mode = "cold" /\ pc = "loop"
    /\ child # <<>>
    /\ \E behs \in EngineBehaviours(child[1]) :
         LET r == EngineMain(child[1], behs)
             p == Process(r)
             parsed == BenchParseOutput(p.output)
         IN  /\ calls' = calls \o EngineCalls(child[1], behs, r)
             /\ run_output' = p.output
             /\ IF p.status # 0
                THEN BenchOnCalledProcessError
                ELSE /\ IF parsed # <<>>
                        THEN /\ memories' = Append(memories, parsed[1].mem)
                             /\ times' = Append(times, parsed[1].t)
                             /\ UNCHANGED console
                        ELSE /\ console' =
                                  Append(console, Msg("Warning: Could not parse output!"))
                             /\ UNCHANGED <<memories, times>>
                     /\ UNCHANGED pc
    /\ child' = <<>>
    /\ log_writers' = log_writers \ {ChildFile(prog)}
    /\ i' = i + 1
    /\ UNCHANGED <<stdout, stderr, captured, loader, fn, args, result, outer, tmp, extra, prog, tool, mode, n_runs, n_warmup, w, csvfile, exc>>

\* memories, times = zip(*parsed)
Unzip(parsed) ==
    [mem |-> [k \in DOMAIN parsed |-> parsed[k].mem],
     t |-> [k \in DOMAIN parsed |-> parsed[k].t]]

\* Hot mode: one child makes all the runs.
BenchHotSpawn ==
    /\ prog = "bench" /\ mode = "hot" /\ pc = "loop"
    /\ child = <<>>
    /\ child' = <<BenchArgs(tool, mode, n_runs)>>
    /\ log_writers' = log_writers \cup {ChildFile(prog)}
    /\ UNCHANGED <<stdout, stderr, captured, loader, fn, args, result, outer, tmp, extra, prog, tool, mode, n_runs, n_warmup, pc, w, i, run_output,
                   memories, times, calls, console, csvfile, exc>>

BenchHotWait ==
    /\ prog = "bench" /\ mode = "hot" /\ pc = "loop"
    /\ child # <<>>
    /\ \E behs \in EngineBehaviours(child[1]) :
         LET r == EngineMain(child[1], behs)
             p == Process(r)
             parsed == BenchParseOutput(p.output)
         IN  /\ calls' = calls \o EngineCalls(child[1], behs, r)
             /\ run_output' = p.output
             /\ IF p.status # 0
                THEN BenchOnCalledProcessError
                ELSE /\ IF parsed # <<>>
                        THEN /\ memories' = Unzip(parsed).mem
                             /\ times' = Unzip(parsed).t
                             /\ UNCHANGED console
                        ELSE /\ console' =
                                  Append(console, Msg("Warning: Could not parse output!"))
                             /\ UNCHANGED <<memories, times>>
                     /\ pc' = "summary"
    /\ child' = <<>>
    /\ log_writers' = log_writers \ {ChildFile(prog)}
    /\ UNCHANGED <<stdout, stderr, captured, loader, fn, args, result, outer, tmp, extra, prog, tool, mode, n_runs, n_warmup, w, i, csvfile, exc>>

\* After the try statement: the summary and the export.
BenchFinish ==
    /\ prog = "bench"
    /\ IF pc = "loop"
       THEN mode = "cold" /\ i >= n_runs /\ child = <<>>
       ELSE pc = "summary"
    /\ console' = console
                    \o summarize("Elapsed Time (s)", times)
                    \o summarize("Memory Used (MB)", memories)
    /\ csvfile' = <<BenchExportResultsCsv(tool, mode, memories, times)>>
    /\ pc' = "done"
    /\ UNCHANGED <<stdout, stderr, captured, log_writers, loader, fn, args, result, outer, tmp, extra, prog, tool, mode, n_runs, n_warmup, w, i, child,
                   run_output, memories, times, calls, exc>>

(***************************************************************************)
(* duckdb_polars_stresstest/benchmark.py                                   *)
(***************************************************************************)
\* The argument vector benchmark(tool, test, factor) builds; factors is the
\* list of factors (the one factor of a normal test).
StressArgs(tl, test, factors) ==
    <<"--tool", tl, "--test", test>>
    \o IF test \in {"stress-big", "stress-small"}
       THEN <<"--factors">> \o [k \in 1..Len(factors) |-> Str(factors[k])]
       ELSE <<"--factor", Str(factors[1])>>

\* The names a function body can read when its inner loop starts: its
\* parameters and locals, the loop variables, the module's globals.
NormalLoopNames == {"tool", "scale_factors", "memories", "times", "row_counts",
                    "sizes", "scales", "factor", "mem_tmp", "t_tmp", "rows",
                    "size", "scale", "_"}
StressLoopNames == {"tool", "test", "factor", "factor_range", "gb_per_file",
                    "memories", "times", "row_counts", "sizes", "scales",
                    "factor_r", "factors", "mem_tmp", "t_tmp", "rows", "size",
                    "i"}
\* print(f"Run {i+1} / 10") raises NameError unless i is bound.
RunLabelRaises(test) ==
    "i" \notin (IF test = "normal" THEN NormalLoopNames ELSE StressLoopNames)

\* The outer loop's sequence and the factors of its element number k.
OuterList(test) ==
    IF test = "normal" THEN ScaleFactors
    ELSE IF test = "stress-big" THEN StressBig.factor_range
    ELSE StressSmall.factor_range
Factors(test, k) ==
    IF test = "normal" THEN <<ScaleFactors[k]>>
    ELSE [j \in 1..OuterList(test)[k] |->
            IF test = "stress-big" THEN StressBig.factor ELSE StressSmall.factor]

\* get_row_count_and_size: the count and size read, (0, 0.0) on an error.
RowCountAndSize == {[rc |-> 0, sz |-> 0], [rc |-> 6, sz |-> 1]}

\* One run starts: the label is printed, benchmark() starts the child.
StressSpawn ==
    /\ prog = "stress" /\ pc = "loop"
    /\ outer < Len(OuterList(mode)) /\ i < RunsPerFactor /\ child = <<>>
    /\ IF RunLabelRaises(mode)
       THEN pc' = "aborted" /\ exc' = "NameError" /\ UNCHANGED <<child, log_writers>>
       ELSE /\ child' = <<StressArgs(tool, mode, Factors(mode, outer + 1))>>
            /\ log_writers' = log_writers \cup {ChildFile(prog)}
            /\ UNCHANGED <<pc, exc>>
    /\ UNCHANGED <<stdout, stderr, captured, loader, fn, args, result, outer, tmp, extra, prog, tool, mode, n_runs, n_warmup, w, i,
                   run_output, memories, times, calls, console, csvfile>>

\* benchmark() gets the child's output and returns a result or None; the
\* inner loop takes it.  In a stress test None ends the inner loop (break).
StressWait ==
    /\ prog = "stress" /\ pc = "loop"
    /\ child # <<>>
    /\ \E beh \in Behaviours, cs \in RowCountAndSize :
         LET p == Process(StressEngineMain(child[1], beh))
             parsed == BenchParseOutput(p.output)
         IN  /\ run_output' = p.output
             /\ calls' = Append(calls, Call("measured", i + 1, beh,
                                          StressEngineMain(child[1], beh)))
             /\ IF p.status = 0 /\ parsed # <<>>
                THEN /\ tmp' = [mem_tmp |-> Append(tmp.mem_tmp, parsed[1].mem),
                                t_tmp |-> Append(tmp.t_tmp, parsed[1].t),
                                rows |-> cs.rc, size |-> cs.sz,
                                scale |-> Factors(mode, outer + 1)[1]]
                     /\ pc' = IF i + 1 < RunsPerFactor THEN "loop" ELSE "after"
                     /\ UNCHANGED console
                ELSE /\ console' =
                          console
                          \o <<IF p.status # 0 THEN Msg("Run failed")
                               ELSE Msg("Warning: Could not parse output!")>>
                          \o IF mode = "normal" THEN <<>>
                             ELSE <<Msg("Warning: Could not parse output!")>>
                     /\ pc' = IF mode = "normal" /\ i + 1 < RunsPerFactor
                              THEN "loop" ELSE "after"
                     /\ UNCHANGED tmp
    /\ child' = <<>>
    /\ log_writers' = log_writers \ {ChildFile(prog)}
    /\ i' = i + 1
    /\ UNCHANGED <<stdout, stderr, captured, loader, fn, args, result, outer, extra, prog, tool, mode, n_runs, n_warmup, w,
                   memories, times, csvfile, exc>>

\* After the inner loop: the means of the factor are appended (the mean of
\* an empty list raises StatisticsError); after the last factor
\* run_benchmark prints the summary and exports.
StressFactorDone ==
    /\ prog = "stress" /\ pc = "after"
    /\ IF tmp.mem_tmp = <<>>
       THEN /\ pc' = "aborted" /\ exc' = "StatisticsError"
            /\ UNCHANGED <<memories, times, extra, outer, i, tmp, console, csvfile>>
       ELSE LET k == IF mode = "normal" THEN 1 ELSE OuterList(mode)[outer + 1]
                mems == Append(memories, Mean(tmp.mem_tmp))
                ts == Append(times, Mean(tmp.t_tmp))
                ex == [row_counts |-> Append(extra.row_counts, tmp.rows * k),
                       sizes |-> Append(extra.sizes, tmp.size * k),
                       scales |-> Append(extra.scales,
                                     IF mode = "normal" THEN tmp.scale
                                     ELSE OuterList(mode)[outer + 1])]
            IN  /\ memories' = mems
                /\ times' = ts
                /\ extra' = ex
                /\ outer' = outer + 1
                /\ i' = 0
                /\ tmp' = EmptyTmp
                /\ IF outer + 1 < Len(OuterList(mode))
                   THEN pc' = "loop" /\ UNCHANGED <<console, csvfile>>
                   ELSE /\ pc' = "done"
                        /\ console' = console
                                        \o StressSummarize("Elapsed Time (s)", ts)
                                        \o StressSummarize("Memory Used (MB)", mems)
                        /\ csvfile' = <<StressExportResultsCsv(tool, mode,
                                          [scales |-> ex.scales, memories |-> mems,
                                           times |-> ts, row_counts |-> ex.row_counts,
                                           sizes |-> ex.sizes])>>
                /\ UNCHANGED exc
    /\ UNCHANGED <<stdout, stderr, captured, log_writers, loader, fn, args, result, prog, tool, mode, n_runs, n_warmup, w, child, run_output,
                   calls>>

Next ==
    \/ RunnerColdSpawn
    \/ RunnerColdWait
    \/ RunnerColdChildNeverExits
    \/ RunnerColdFinish
    \/ RunnerWarmupRun
    \/ RunnerWarmupComplete
    \/ RunnerHotRun
    \/ RunnerHotFinish
    \/ EngineExit
    \/ BenchColdSpawn
    \/ BenchColdWait
    \/ BenchHotSpawn
    \/ BenchHotWait
    \/ BenchFinish
    \/ StressSpawn
    \/ StressWait
    \/ StressFactorDone

Spec == Init /\ [][Next]_vars

\* A session that can take a step takes one.
FairSpec == Spec /\ WF_vars(Next)

(***************************************************************************)
(* Functions called on their own.  fn names the function, args holds its   *)
(* arguments, and one step makes the call and leaves in result what it     *)
(* returned.                                                               *)
(***************************************************************************)
\* The variables of a session, when no session runs.
NoProgram ==
    /\ prog = "none" /\ tool = "" /\ mode = ""
    /\ n_runs = 0 /\ n_warmup = 0 /\ w = 0 /\ i = 0
    /\ child = <<>> /\ run_output = <<>>
    /\ memories = <<>> /\ times = <<>> /\ calls = <<>>
    /\ console = <<>> /\ csvfile = <<>>
    /\ outer = 0 /\ tmp = EmptyTmp /\ extra = EmptyExtra
    /\ exc = "none"
    /\ stdout = "terminal" /\ stderr = "terminal" /\ captured = <<>>
    /\ log_writers = {}

\* No program of the benchmark runs, and no loading buffer exists.
NoSession == NoProgram /\ loader = <<>>

\* What a call leaves alone.
CallFrame ==
    UNCHANGED <<prog, tool, mode, n_runs, n_warmup, w, i, child, run_output, memories,
                times, calls, console, outer, tmp, extra, exc, fn, args,
                stdout, stderr, captured, log_writers, loader>>

\* The two fields as the children print them.
MemoryField(m) == <<Word("Memory"), Word("=")>> \o FormatFloat(m) \o <<Word("MB")>>
TimeField(t) == <<Word("Time"), Word("=")>> \o FormatFloat(t) \o <<Word("s")>>

\* The pieces of a captured text: a word, a line break, a memory field with a
\* negative or a positive number, a time field, and a memory field cut off
\* after its equals sign.  The numbers 1234 and 56 stand for the numerals
\* 12.34 and 0.56.
Segments ==
    {<<Word("noise")>>, <<NL>>, MemoryField(0 - 3), MemoryField(1234), TimeField(56),
     <<Word("Memory"), Word("=")>>}

\* The texts of at most n pieces.
RECURSIVE Texts(_)
Texts(n) ==
    IF n = 0 THEN {<<>>}
    ELSE Texts(n - 1) \cup {t \o sg : t \in Texts(n - 1), sg \in Segments}

ParseOutputInit ==
    /\ fn \in {"benchmark_runner.parse_output", "benchmark.parse_output",
               "stresstest.parse_output"}
    /\ args \in Texts(MaxSegments)

\* The sequences of at most n elements of S.
RECURSIVE SeqsUpTo(_, _)
SeqsUpTo(S, n) ==
    IF n = 0 THEN {<<>>}
    ELSE SeqsUpTo(S, n - 1) \cup {Append(q, x) : q \in SeqsUpTo(S, n - 1), x \in S}

\* The records of a session: (memory, time) pairs.
RecordLists == SeqsUpTo({[mem |-> 0 - 3, t |-> 1], [mem |-> 5, t |-> 3]}, MaxRuns)

\* Two sessions export to the same file name, first after second.
ExportInit ==
    /\ fn \in {"benchmark_runner.export_results_csv", "benchmark.export_results_csv"}
    /\ args \in [first : RecordLists, second : RecordLists]

\* The lists of at most MaxFiles paths.
PathLists == SeqsUpTo(Paths, MaxFiles)

PlotterInit ==
    \/ fn = "plotter.plot_results" /\ args \in {<<f>> : f \in Paths}
    \/ /\ fn \in {"plotter.plot_results_multi", "plotter.barcharts",
                   "plotter.load_and_concat_csvs"}
       /\ args \in PathLists

\* The values of a sample: a shrunken and a grown memory, a time, and 0.
SampleValues == {-3, 0, 3, 5}

SummarizeInit ==
    /\ fn \in {"benchmark_runner.summarize", "benchmark.summarize"}
    /\ args \in SeqsUpTo(SampleValues, MaxRuns)

\* The measurement primitives, each called with a target that does beh; tool
\* and test choose the target of the stress test's primitive.
PrimitiveInit ==
    /\ fn \in {"benchmark_target.run_benchmark", "benchmark_engine.cold_benchmark",
               "stresstest.benchmark_engine.benchmark"}
    /\ args \in [tool : {"duckdb", "polars"}, test : {"normal", "stress", "multiple"},
                  beh : Behaviours]

\* The argument vectors the three runners build for a child of a cold run, and
\* the one a user gives benchmark_engine.py.
ColdChildArgvs(f) ==
    IF f = "benchmark_target.py"
    THEN {RunnerArgs(b, RunnerFunction) : b \in {"duckdb", "polars", "pandas"}}
    ELSE IF f = "benchmark_engine.py"
    THEN {BenchArgs(tl, "cold", n) : tl \in {"duckdb", "polars"}, n \in 1..MaxRuns}
         \cup {EngineUserArgs("duckdb", EngineFunction, "cold", n) : n \in 1..MaxRuns}
    ELSE {StressArgs(tl, test, Factors(test, 1)) :
             tl \in {"duckdb", "polars"}, test \in {"normal", "stress-big", "stress-small"}}

\* The argument vector benchmark(tool, test, factor) of
\* duckdb_polars_pandas_stresstest/benchmark.py builds; factors is the list
\* of factors (the one factor of a normal test).
PandasStressArgs(tl, test, factors) ==
    <<"--tool", tl, "--test", test>>
    \o IF test \in {"stress-big", "stress-small"}
       THEN <<"--factors">> \o [k \in 1..Len(factors) |-> Str(factors[k])]
       ELSE <<"--factor", Str(factors[1])>>

\* The factors of the first run of run_benchmark there: the first scale
\* factor, 10 tables of factor 640, 100 tables of factor 10.
PandasStressFactors(test) ==
    IF test = "normal" THEN <<ScaleFactors[1]>>
    ELSE IF test = "stress-big" THEN [k \in 1..10 |-> 640]
    ELSE [k \in 1..100 |-> 10]

\* The argument vectors that runner builds for its child.
PandasStressChildArgvs ==
    {PandasStressArgs(tl, test, PandasStressFactors(test)) :
        tl \in {"duckdb", "polars"}, test \in {"normal", "stress-big", "stress-small"}}

\* The programs run as the child process of a run.
ChildPrograms ==
    {"benchmark_target.py", "benchmark_engine.py", "stresstest.benchmark_engine.py",
     "pandas_stresstest.benchmark_engine.py"}

\* A child process of a cold run: its program, its argument vector, and what
\* its target does if it is called.
ChildInit ==
    /\ fn \in ChildPrograms
    /\ args \in [argv : IF fn = "pandas_stresstest.benchmark_engine.py"
                         THEN PandasStressChildArgvs ELSE ColdChildArgvs(fn),
                  beh : Behaviours]

FnInit ==
    /\ NoSession
    /\ pc = "call"
    /\ result = <<>>
    /\ (ParseOutputInit \/ ExportInit \/ PlotterInit \/ SummarizeInit
          \/ PrimitiveInit \/ ChildInit)

CallRunnerParseOutput ==
    /\ fn = "benchmark_runner.parse_output" /\ pc = "call"
    /\ result' = RunnerParseOutput(args)
    /\ pc' = "returned"
    /\ UNCHANGED csvfile
    /\ CallFrame

\* benchmark.parse_output and the stress-test runner's parse_output have the
\* same pattern.
CallBenchParseOutput ==
    /\ fn \in {"benchmark.parse_output", "stresstest.parse_output"} /\ pc = "call"
    /\ result' = BenchParseOutput(args)
    /\ pc' = "returned"
    /\ UNCHANGED csvfile
    /\ CallFrame

\* An export that opens the file to append: the rows follow what the file
\* held before.
ExportAppending(f, records) ==
    [header |-> <<"tool", "mode", "run", "memory_mb", "time_s">>,
     rows |-> (IF csvfile = <<>> THEN <<>> ELSE csvfile[1].rows)
              \o [k \in DOMAIN records |->
                    [id |-> <<"duckdb", "cold">>, run |-> k,
                     memory_mb |-> FormatFloat(records[k].mem),
                     time_s |-> FormatFloat(records[k].t)]]]

\* export_results_csv of fn, given the records of a session.
ExportOf(f, records) ==
    IF f = "benchmark_runner.export_results_csv"
    THEN RunnerExportResultsCsv("duckdb", RunnerFunction, "cold",
                                Unzip(records).mem, Unzip(records).t)
    ELSE BenchExportResultsCsv("duckdb", "cold", Unzip(records).mem, Unzip(records).t)

\* The export of the first session.
CallExportFirst ==
    /\ fn \in {"benchmark_runner.export_results_csv", "benchmark.export_results_csv"}
    /\ pc = "call"
    /\ csvfile' = <<ExportOf(fn, args.first)>>
    /\ pc' = "exported"
    /\ UNCHANGED result
    /\ CallFrame

\* The export of the second session, to the same file name.
CallExportSecond ==
    /\ fn \in {"benchmark_runner.export_results_csv", "benchmark.export_results_csv"}
    /\ pc = "exported"
    /\ csvfile' = <<ExportOf(fn, args.second)>>
    /\ pc' = "returned"
    /\ UNCHANGED result
    /\ CallFrame

CallPlotResults ==
    /\ fn = "plotter.plot_results" /\ pc = "call"
    /\ result' = plot_results(args[1])
    /\ pc' = "returned"
    /\ UNCHANGED csvfile
    /\ CallFrame

CallPlotResultsMulti ==
    /\ fn = "plotter.plot_results_multi" /\ pc = "call"
    /\ result' = plot_results_multi(args)
    /\ pc' = "returned"
    /\ UNCHANGED csvfile
    /\ CallFrame

CallBarcharts ==
    /\ fn = "plotter.barcharts" /\ pc = "call"
    /\ result' = barcharts(args)
    /\ pc' = "returned"
    /\ UNCHANGED csvfile
    /\ CallFrame

\* load_and_concat_csvs(csv_files, add_source=True)
CallLoadAndConcatCsvs ==
    /\ fn = "plotter.load_and_concat_csvs" /\ pc = "call"
    /\ result' = load_and_concat_csvs(args, TRUE)
    /\ pc' = "returned"
    /\ UNCHANGED csvfile
    /\ CallFrame

CallSummarize ==
    /\ fn \in {"benchmark_runner.summarize", "benchmark.summarize"} /\ pc = "call"
    /\ result' = Statistics(args)
    /\ pc' = "returned"
    /\ UNCHANGED csvfile
    /\ CallFrame

\* The primitive is called: what it raised, what it printed, and for
\* run_benchmark the calls it made.
CallPrimitive ==
    /\ fn \in {"benchmark_target.run_benchmark", "benchmark_engine.cold_benchmark",
               "stresstest.benchmark_engine.benchmark"}
    /\ pc = "call"
    /\ result' =
          IF fn = "benchmark_target.run_benchmark"
          THEN [exc |-> TargetRunBenchmark(args.beh).exc,
                out |-> TargetRunBenchmark(args.beh).out,
                events |-> RunBenchmarkEvents(args.beh)]
          ELSE IF fn = "benchmark_engine.cold_benchmark"
          THEN cold_benchmark(args.beh)
          ELSE StressEngineBenchmark(args.tool, args.test, args.beh)
    /\ pc' = "returned"
    /\ UNCHANGED csvfile
    /\ CallFrame

\* The child runs to its end: its exit status, the text it leaves on stdout
\* and stderr, and how many times it called the target.
ChildOf(f, argv, beh) ==
    IF f = "benchmark_target.py"
    THEN [status |-> Process(TargetMain(argv, beh)).status,
          output |-> Process(TargetMain(argv, beh)).output,
          invoked |-> IF TargetInvoked(argv) THEN 1 ELSE 0]
    ELSE IF f = "benchmark_engine.py"
    THEN [status |-> Process(EngineMain(argv, <<beh>>)).status,
          output |-> Process(EngineMain(argv, <<beh>>)).output,
          invoked |-> Cardinality(EngineCalled(argv, <<beh>>))]
    ELSE IF f = "stresstest.benchmark_engine.py"
    THEN [status |-> Process(StressEngineMain(argv, beh)).status,
          output |-> Process(StressEngineMain(argv, beh)).output,
          invoked |-> IF StressEngineInvoked(argv) THEN 1 ELSE 0]
    ELSE [status |-> Process(PandasStressEngineMain(argv, beh)).status,
          output |-> Process(PandasStressEngineMain(argv, beh)).output,
          invoked |-> IF ParseArgsAccepts(PandasStressEngineParser, argv) THEN 1 ELSE 0]

RunChild ==
    /\ fn \in ChildPrograms
    /\ pc = "call"
    /\ result' = ChildOf(fn, args.argv, args.beh)
    /\ pc' = "returned"
    /\ UNCHANGED csvfile
    /\ CallFrame

FnNext ==
    \/ CallRunnerParseOutput
    \/ CallBenchParseOutput
    \/ CallExportFirst
    \/ CallExportSecond
    \/ CallPlotResults
    \/ CallPlotResultsMulti
    \/ CallBarcharts
    \/ CallLoadAndConcatCsvs
    \/ CallSummarize
    \/ CallPrimitive
    \/ RunChild

FnSpec == FnInit /\ [][FnNext]_vars

(***************************************************************************)
(* upload_data/ArrowTableLoadingBuffer.py.  loader holds the buffer        *)
(* (chunk_size, total_inserted), the rows of the destination table, and    *)
(* the locals of the insert call in progress: table, batch_start, and the  *)
(* chunks passed to insert_chunk so far.  A row is <<n, r>>: row r of the  *)
(* table of the n-th insert call.                                          *)
(***************************************************************************)
\* What a step of the buffer leaves alone.
LoaderFrame ==
    UNCHANGED <<prog, tool, mode, n_runs, n_warmup, w, i, child, run_output, memories,
                times, calls, console, csvfile, outer, tmp, extra, fn, args, result,
                stdout, stderr, captured, log_writers>>

\* __init__: nothing inserted yet, into an empty destination table.
LoaderInit ==
    /\ NoProgram
    /\ fn = "none" /\ args = <<>> /\ result = <<>>
    /\ pc = "idle"
    /\ \E c \in 1..MaxChunkSize :
         loader = [chunk_size |-> c, total_inserted |-> 0, destination |-> <<>>,
                   inserts |-> 0, table |-> <<>>, batch_start |-> 0, chunks |-> <<>>]

\* table.slice(offset, length): the rows from offset on, length of them or
\* as many as there are.
Slice(table, offset, length) ==
    SubSeq(table, offset + 1, MinOf({offset + length, Len(table)}))

\* A slice that is given batch_end where the length is expected.
LengthIsBatchEnd(batch_start, batch_end) == batch_end

\* The length of a chunk: batch_end - batch_start.
ChunkLength(batch_start, batch_end) == batch_end - batch_start

\* The chunk of the iteration that starts at batch_start.
Chunk(table, batch_start, chunk_size) ==
    Slice(table, batch_start,
          ChunkLength(batch_start, MinOf({batch_start + chunk_size, Len(table)})))

\* insert(table) is called with a table of R rows.
LoaderInsert ==
    /\ pc = "idle"
    /\ loader.inserts < MaxInserts
    /\ \E R \in 0..MaxRows :
         loader' = [loader EXCEPT !.inserts = @ + 1,
                                  !.table = [k \in 1..R |-> <<loader.inserts + 1, k - 1>>],
                                  !.batch_start = 0,
                                  !.chunks = <<>>]
    /\ pc' = "insert"
    /\ exc' = "none"
    /\ LoaderFrame

\* One iteration of the loop: the chunk is passed to insert_chunk, whose
\* INSERT puts its rows into the destination table.
LoaderInsertChunk ==
    /\ pc = "insert"
    /\ loader.batch_start < Len(loader.table)
    /\ loader' = [loader EXCEPT
                    !.chunks = Append(@, Chunk(loader.table, loader.batch_start,
                                               loader.chunk_size)),
                    !.destination = @ \o Chunk(loader.table, loader.batch_start,
                                               loader.chunk_size),
                    !.batch_start = @ + loader.chunk_size]
    /\ UNCHANGED <<pc, exc>>
    /\ LoaderFrame

\* One iteration of the loop in which insert_chunk raises (the connection is
\* lost, the INSERT is refused): the chunk is not inserted, and the exception
\* leaves insert() before the line that adds to total_inserted.
LoaderInsertChunkFails ==
    /\ pc = "insert"
    /\ loader.batch_start < Len(loader.table)
    /\ loader' = [loader EXCEPT
                    !.chunks = Append(@, Chunk(loader.table, loader.batch_start,
                                               loader.chunk_size))]
    /\ pc' = "idle"
    /\ exc' = "duckdb.Error"
    /\ LoaderFrame

\* After the loop: total_inserted += total_rows, and insert() returns.
LoaderInsertReturn ==
    /\ pc = "insert"
    /\ loader.batch_start >= Len(loader.table)
    /\ loader' = [loader EXCEPT !.total_inserted = @ + Len(loader.table)]
    /\ pc' = "idle"
    /\ UNCHANGED exc
    /\ LoaderFrame

LoaderNext ==
    \/ LoaderInsert
    \/ LoaderInsertChunk
    \/ LoaderInsertChunkFails
    \/ LoaderInsertReturn

LoaderSpec == LoaderInit /\ [][LoaderNext]_vars

(***************************************************************************)
(* Properties                                                              *)
(***************************************************************************)
Last(s) == s[Len(s)]

\* The runs of the call log that ended with an exception.
FailedCalls == {k \in DOMAIN calls : calls[k].exc # "none"}

\* The session function is over, by a return or by an exception.
Ended == pc \in {"done", "aborted"}

\* C1: in run_cold_benchmark a child that exits with a non-zero status is a
\* warning for that run only: the session is not aborted, and when it is over
\* all n_runs children have been launched and the summary and the export
\* have been made.
C1_ColdChildFailureIsOnlyAWarning ==
    (prog = "runner" /\ mode = "cold") =>
        /\ pc # "aborted"
        /\ pc = "done" => (i = n_runs /\ Len(calls) = n_runs /\ csvfile # <<>>)

\* C2: in the cold mode of benchmark.run_benchmark a child that exits with a
\* non-zero status excludes that run only: when the session is over, all
\* n_runs children have been launched.
C2_ColdRunsAfterAFailureAreLaunched ==
    (prog = "bench" /\ mode = "cold" /\ pc = "done") => i = n_runs

\* C3: in the hot mode of benchmark_runner, when the target raises in exactly
\* one of the n_runs runs, the session is not aborted, every run is executed,
\* exactly n_runs - 1 records are collected and the export is reached.
C3_HotRaiseCostsOneRecord ==
    (prog = "runner" /\ mode = "hot" /\ Ended /\ Cardinality(FailedCalls) = 1) =>
        /\ pc = "done"
        /\ Len(calls) = n_runs
        /\ Len(memories) = n_runs - 1
        /\ csvfile # <<>> /\ Len(csvfile[1].rows) = n_runs - 1

\* C4: when the target raises in one run only of benchmark_engine's
\* hot_benchmark, all n_runs runs are executed and benchmark.parse_output
\* finds exactly n_runs - 1 records in the child's output.
C4_HotEngineRunsAfterARaise ==
    (prog = "engine" /\ mode = "hot" /\ pc = "done"
       /\ Cardinality({k \in DOMAIN calls : calls[k].raises}) = 1) =>
        /\ Len(calls) = n_runs
        /\ Len(BenchParseOutput(run_output)) = n_runs - 1

WarmupCalls == {k \in DOMAIN calls : calls[k].kind = "warmup"}
MeasuredCalls == {k \in DOMAIN calls : calls[k].kind = "measured"}

\* A run of benchmark_runner succeeded: the target returned and parse_output
\* finds the record in what it printed.
Succeeded(c) ==
    /\ c.exc = "none"
    /\ RunnerParseOutput(TargetRunBenchmark([raises |-> FALSE, mem |-> c.mem,
                                             t |-> c.t]).out) # None

\* C5: in run_warm_benchmark the n_warmup warm-up runs all come before the
\* first measured run, no warm-up run adds a record or ends the session,
\* whether it returned or raised, and when all the measured runs succeeded
\* exactly n_runs rows are exported.
C5_WarmupRunsComeFirstAndAddNoRecord ==
    (prog = "runner" /\ mode = "warm") =>
        /\ pc # "aborted"
        /\ \A a \in WarmupCalls : \A b \in MeasuredCalls : a < b
        /\ MeasuredCalls # {} => Cardinality(WarmupCalls) = n_warmup
        /\ pc = "warmup" => (memories = <<>> /\ times = <<>>)
        /\ Len(memories) <= Cardinality(MeasuredCalls)
        /\ (pc = "done" /\ \A k \in MeasuredCalls : Succeeded(calls[k])) =>
               (csvfile # <<>> /\ Len(csvfile[1].rows) = n_runs)

\* A warm session that is over, with a warm-up run that raised, one that
\* returned, and at least two measured runs that all succeeded and were exported.
C5_Witness ==
    /\ prog = "runner" /\ mode = "warm" /\ pc = "done"
    /\ n_runs >= 2
    /\ \E a \in WarmupCalls : calls[a].exc # "none"
    /\ \E a \in WarmupCalls : calls[a].exc = "none"
    /\ \A k \in MeasuredCalls : Succeeded(calls[k])
    /\ Len(csvfile[1].rows) = n_runs

\* C6: a run of benchmark_runner whose target returned and reported a negative
\* memory delta is recorded, with that negative value.
C6_NegativeMemoryIsRecorded ==
    (prog = "runner" /\ calls # <<>> /\ Last(calls).kind = "measured"
       /\ Last(calls).exc = "none" /\ Last(calls).mem < 0) =>
        (memories # <<>> /\ Last(memories) = Last(calls).mem)

\* C7: every argument vector benchmark.run_benchmark builds is accepted by the
\* parser of benchmark_engine, and a cold session of 3 runs in which no run
\* of the target failed ends with 3 rows, numbered 1, 2, 3.
C7_EngineAcceptsTheArgvOfRunBenchmark ==
    prog = "bench" =>
        /\ child # <<>> => ParseArgsAccepts(EngineParser, child[1])
        /\ (mode = "cold" /\ n_runs = 3 /\ pc = "done" /\ FailedCalls = {}) =>
               (/\ Len(csvfile[1].rows) = 3
                /\ \A k \in 1..3 : csvfile[1].rows[k].run = k)

\* summarize printed "No data." for the label.
NoData(label) ==
    \E k \in DOMAIN console : console[k].label = label /\ console[k].text = "No data."

\* C8: a session of benchmark_runner or benchmark.py that is over without one
\* successful run returned normally, printed "No data." for both metrics and
\* wrote a file that holds the header only.
C8_NoSuccessfulRunGivesNoDataAndAHeader ==
    (prog \in {"runner", "bench"} /\ Ended /\ memories = <<>>) =>
        /\ pc = "done"
        /\ NoData("Elapsed Time (s)") /\ NoData("Memory Used (MB)")
        /\ csvfile # <<>> /\ csvfile[1].rows = <<>>

\* C9: no failure of a run aborts a session of the stress-test runner.
C9_StressSessionIsNeverAborted ==
    prog = "stress" => pc # "aborted"

\* The measured runs that gave the session a record, in the order they ended.
RecordedCalls == SelectSeq(calls, LAMBDA c : c.kind = "measured" /\ Succeeded(c))

\* C10: after a session of benchmark_runner or benchmark.py the file holds the
\* header and one row for each record of the session, k rows for k records,
\* in the order the runs ended, numbered 1..k, each row with the memory and
\* time values of its record.
C10_FileHoldsOneRowPerRecord ==
    (prog \in {"runner", "bench"} /\ pc = "done") =>
        /\ csvfile # <<>>
        /\ csvfile[1].header =
              IF prog = "runner"
              THEN <<"backend", "function", "mode", "run", "memory_mb", "time_s">>
              ELSE <<"tool", "mode", "run", "memory_mb", "time_s">>
        /\ Len(csvfile[1].rows) = Len(memories)
        /\ Len(memories) = Len(times)
        /\ Len(memories) <= n_runs
        /\ prog = "runner" => Len(memories) = Len(RecordedCalls)
        /\ \A k \in DOMAIN csvfile[1].rows :
              /\ csvfile[1].rows[k].run = k
              /\ CellValue(csvfile[1].rows[k].memory_mb) = memories[k]
              /\ CellValue(csvfile[1].rows[k].time_s) = times[k]
              /\ prog = "runner" => /\ memories[k] = RecordedCalls[k].mem
                                    /\ times[k] = RecordedCalls[k].t

\* A session that exported two rows of different values after three runs, one
\* of which gave no record.
C10_Witness ==
    /\ prog = "runner" /\ pc = "done"
    /\ n_runs = 3 /\ Len(csvfile[1].rows) = 2
    /\ memories[1] # memories[2]
    /\ csvfile[1].rows[2].run = 2

\* An occurrence of the field  key = <n> unit  at position p of a text: the
\* key, the equals sign, a number with or without a minus sign, the unit.
FieldAt(text, p, key, unit) ==
    /\ p + 3 <= Len(text)
    /\ text[p] = Word(key) /\ text[p + 1] = Word("=")
    /\ \/ text[p + 2].k = "num" /\ text[p + 3] = Word(unit)
       \/ /\ p + 4 <= Len(text)
          /\ text[p + 2] = Word("-") /\ text[p + 3].k = "num"
          /\ text[p + 4] = Word(unit)

FieldsOf(text, key, unit) == {p \in 1..Len(text) : FieldAt(text, p, key, unit)}

\* C11: benchmark_runner.parse_output returns a pair exactly when the text
\* holds a Memory field and a Time field, in either order, and None when one
\* of them is absent.
C11_RunnerParseOutputFindsBothFields ==
    (fn = "benchmark_runner.parse_output" /\ pc = "returned") =>
        ((result # None) <=>
            (FieldsOf(args, "Memory", "MB") # {} /\ FieldsOf(args, "Time", "s") # {}))

\* The text holds one Memory field, with the numeral 12.34, and no other.
OneMemoryField(text) ==
    /\ Cardinality(FieldsOf(text, "Memory", "MB")) = 1
    /\ \A p \in FieldsOf(text, "Memory", "MB") : text[p + 2] = Num(1234)

\* The text holds one Time field, later on the line of the Memory field.
OneTimeFieldLaterOnTheLine(text) ==
    /\ Cardinality(FieldsOf(text, "Time", "s")) = 1
    /\ \A p \in FieldsOf(text, "Memory", "MB") : \A q \in FieldsOf(text, "Time", "s") :
          p < q /\ \A r \in p..q : text[r] # NL

\* C12: every parse_output finds the record (12.34, 0.56) in a text that holds
\* one Memory = 12.34 MB and, later on the same line, one Time = 0.56 s, with
\* any other words and lines around them, and no record when the text holds
\* the Memory field without a Time field.
C12_ParseOutputToleratesSurroundingText ==
    (fn \in {"benchmark_runner.parse_output", "benchmark.parse_output",
             "stresstest.parse_output"}
       /\ pc = "returned" /\ OneMemoryField(args)) =>
        /\ OneTimeFieldLaterOnTheLine(args) => result = <<[mem |-> 1234, t |-> 56]>>
        /\ FieldsOf(args, "Time", "s") = {} => result = <<>>

\* "noise Memory = 12.34 MB noise Time = 0.56 s noise", parsed by benchmark.py.
C12_Witness ==
    /\ fn = "benchmark.parse_output" /\ pc = "returned"
    /\ args = <<Word("noise")>> \o MemoryField(1234) \o <<Word("noise")>>
                \o TimeField(56) \o <<Word("noise")>>
    /\ result = <<[mem |-> 1234, t |-> 56]>>

\* The warnings of an unparsable output printed so far.
Warnings ==
    {k \in DOMAIN console : console[k].text = "Warning: Could not parse output!"}

\* C13: in a cold session of benchmark_runner a child that exits with status 0
\* and an output without the expected pattern gets a warning and no record,
\* and does not end the session: the records are as many as the runs whose
\* output parsed, the warnings as many as the other runs that exited with
\* status 0, the session is aborted by no such run, and when every child
\* exited with status 0 all n_runs children have been launched at the end.
C13_ColdUnparsableOutputIsAWarning ==
    (prog = "runner" /\ mode = "cold") =>
        /\ Len(memories) = Cardinality({k \in DOMAIN calls : Succeeded(calls[k])})
        /\ Cardinality(Warnings) =
              Cardinality({k \in DOMAIN calls :
                              calls[k].exc = "none" /\ ~Succeeded(calls[k])})
        /\ pc = "aborted" => Last(calls).exc # "none"
        /\ (pc = "done" /\ FailedCalls = {}) => Len(calls) = n_runs

\* A cold session of three runs that is over: run 2 exited with status 0 and
\* gave no record, runs 1 and 3 gave one each.
C13_Witness ==
    /\ prog = "runner" /\ mode = "cold" /\ pc = "done" /\ n_runs = 3
    /\ Len(calls) = 3 /\ FailedCalls = {}
    /\ Succeeded(calls[1]) /\ ~Succeeded(calls[2]) /\ Succeeded(calls[3])
    /\ Len(memories) = 2 /\ Cardinality(Warnings) = 1

\* C14: a cold session does not stay for ever in the call that waits for a
\* child: a child that exceeds the time limit, or never exits, is timed out
\* and the session goes on.
C14_ChildOverTheTimeLimitIsTimedOut ==
    (child # <<>>) ~> (child = <<>>)

\* C15: in a cold session at most one child is alive at any moment, and a
\* child is launched only when no child is alive and the outputs of all the
\* runs before it have been captured and parsed.
C15_ColdRunsAreSequential ==
    [][(prog \in {"runner", "bench"} /\ mode = "cold") =>
          /\ Len(child') <= 1
          /\ (child' # <<>> /\ child' # child) =>
                /\ child = <<>>
                /\ i < n_runs
                /\ prog = "runner" => Len(calls) = i]_vars

\* The child of run 3 is alive, after the children of runs 1 and 2 exited.
C15_Witness ==
    /\ prog = "runner" /\ mode = "cold" /\ pc = "loop"
    /\ Len(child) = 1 /\ i = 2 /\ Len(calls) = 2

\* C16: no run is made twice: the measured invocations of the target carry
\* different run numbers, all in 1..n_runs, so they are at most n_runs, and a
\* cold session launches at most n_runs children.
C16_NoRunIsRetried ==
    (prog \in {"runner", "bench"}) =>
        /\ \A k \in MeasuredCalls : calls[k].run \in 1..n_runs
        /\ \A j, k \in MeasuredCalls : calls[j].run = calls[k].run => j = k
        /\ Cardinality(MeasuredCalls) <= n_runs
        /\ i <= n_runs
        /\ mode = "cold" => i + Len(child) <= n_runs

\* A hot session of three runs that is over: run 2 failed, and the target was
\* invoked three times.
C16_Witness ==
    /\ prog = "runner" /\ mode = "hot" /\ pc = "done" /\ n_runs = 3
    /\ Len(calls) = 3 /\ calls[2].exc # "none"

\* The file holds the header of fn's export and the rows of the records, one
\* for each, in order, numbered from 1.
FileHolds(f, records) ==
    /\ csvfile # <<>>
    /\ csvfile[1].header =
          IF f = "benchmark_runner.export_results_csv"
          THEN <<"backend", "function", "mode", "run", "memory_mb", "time_s">>
          ELSE <<"tool", "mode", "run", "memory_mb", "time_s">>
    /\ Len(csvfile[1].rows) = Len(records)
    /\ \A k \in DOMAIN csvfile[1].rows :
          /\ csvfile[1].rows[k].run = k
          /\ CellValue(csvfile[1].rows[k].memory_mb) = records[k].mem
          /\ CellValue(csvfile[1].rows[k].time_s) = records[k].t

\* C17: after the export of a first session and then of a second session to
\* the same file name, the file holds the header and the rows of the second
\* session only, also when the second session has fewer records or none.
C17_ExportOverwrites ==
    (fn \in {"benchmark_runner.export_results_csv", "benchmark.export_results_csv"}) =>
        /\ pc = "exported" => FileHolds(fn, args.first)
        /\ pc = "returned" => FileHolds(fn, args.second)

\* A first session of two records, then a second session of one, exported by
\* benchmark.py: the file holds one row.
C17_Witness ==
    /\ fn = "benchmark.export_results_csv" /\ pc = "returned"
    /\ Len(args.first) = 2 /\ Len(args.second) = 1
    /\ args.second[1].mem < 0
    /\ Len(csvfile[1].rows) = 1

\* The columns a result file must have.
RequiredColumns == {"tool", "run", "time_s", "memory_mb"}

\* A named file does not exist, or exists without a required column.
NamesABadFile(csv_files) ==
    \E k \in DOMAIN csv_files :
        \/ ~IsFile(csv_files[k])
        \/ ~(RequiredColumns \subseteq FileSystem[csv_files[k]].columns)

\* C18: when a named file does not exist or lacks a required column,
\* plot_results, plot_results_multi and barcharts end with an error and draw
\* no figure.
C18_PlotterFailsFast ==
    (fn \in {"plotter.plot_results", "plotter.plot_results_multi", "plotter.barcharts"}
       /\ pc = "returned" /\ NamesABadFile(args)) =>
        (result.exc # "none" /\ ~result.figure)

\* The number of rows in the files before the k-th of csv_files.
RECURSIVE RowsBefore(_, _)
RowsBefore(csv_files, k) ==
    IF k = 1 THEN 0
    ELSE RowsBefore(csv_files, k - 1) + Len(FileSystem[csv_files[k - 1]].rows)

\* C19: the table load_and_concat_csvs(csv_files, add_source=True) returns
\* holds the rows of the files, file by file in argument order and in each
\* file's row order, each row with the identifier of its own file in the
\* source column; it has as many rows as the files have together.  The
\* function returns a table whenever files are named and all of them exist.
C19_LoadAndConcatKeepsOrderAndSource ==
    (fn = "plotter.load_and_concat_csvs" /\ pc = "returned") =>
        /\ (args # <<>> /\ \A k \in DOMAIN args : IsFile(args[k])) => result.exc = "none"
        /\ result.exc = "none" =>
            /\ Len(result.out.rows) = RowsBefore(args, Len(args) + 1)
            /\ \A k \in DOMAIN args : \A j \in DOMAIN FileSystem[args[k]].rows :
                   /\ result.out.rows[RowsBefore(args, k) + j]["source"]
                        = BaseNameWithoutExt[args[k]]
                   /\ \A c \in FileSystem[args[k]].columns \ {"source"} :
                        result.out.rows[RowsBefore(args, k) + j][c]
                          = FileSystem[args[k]].rows[j][c]

\* Two different files with rows were loaded into one table.
C19_Witness ==
    /\ fn = "plotter.load_and_concat_csvs" /\ pc = "returned"
    /\ result.exc = "none"
    /\ Len(args) = 2
    /\ BaseNameWithoutExt[args[1]] # BaseNameWithoutExt[args[2]]
    /\ FileSystem[args[1]].rows # <<>> /\ FileSystem[args[2]].rows # <<>>
    /\ Len(result.out.rows)
         = Len(FileSystem[args[1]].rows) + Len(FileSystem[args[2]].rows)

\* C20: for a sample sequence that is not empty, summarize ends without a
\* division by zero (or any other error), its std is 0 when there are fewer
\* than 2 samples and its cv is 0 when the mean is 0; for a single sample
\* both are 0 whatever the sample.
C20_SummarizeGuardsStdAndCv ==
    (fn \in {"benchmark_runner.summarize", "benchmark.summarize"}
       /\ pc = "returned" /\ args # <<>>) =>
        /\ result.exc = "none"
        /\ Len(args) < 2 => result.std2.num = 0
        /\ Sum(args) = 0 => result.cv2.num = 0
        /\ Len(args) = 1 => (result.std2.num = 0 /\ result.cv2.num = 0)

\* Samples that differ and have the mean 0 were summarized: the std is not 0
\* and the cv is.
C20_Witness ==
    /\ fn \in {"benchmark_runner.summarize", "benchmark.summarize"}
    /\ pc = "returned"
    /\ Len(args) > 1 /\ Sum(args) = 0
    /\ result.exc = "none"
    /\ result.std2.num # 0
    /\ result.cv2.num = 0

\* The texts with which a runner reports a run that gave no record.
RunWarnings == {"Warning: Could not parse output!", "Run failed"}

\* The measured runs of benchmarking() that gave no record and did not end
\* the session: the target raised an Exception, or its text did not parse.
UnrecordedCalls ==
    {k \in MeasuredCalls : IF calls[k].exc = "none" THEN ~Succeeded(calls[k])
                            ELSE ExceptException(calls[k].exc)}

\* C21: in a hot or warm session of benchmark_runner the warning of every
\* measured run that gave no record is on the session's real output stream,
\* and no warning is in the capture buffer of a run.
C21_HotWarningsReachTheRealStream ==
    (prog = "runner" /\ mode \in {"hot", "warm"}) =>
        /\ \A k \in DOMAIN captured : captured[k].text \notin RunWarnings
        /\ Cardinality({k \in DOMAIN console : console[k].text \in RunWarnings})
             = Cardinality(UnrecordedCalls)

\* C27: the redirection of benchmark_runner lasts for one call: every
\* measured run of benchmarking() and every warm-up run leaves sys.stdout and
\* sys.stderr the streams they were before the run, whether the target
\* returned or raised, so that between runs they are the session's real
\* streams.
C27_RedirectionIsScopedToOneRun ==
    [][prog = "runner" =>
          /\ stdout' = stdout /\ stderr' = stderr
          /\ stdout' = "terminal" /\ stderr' = "terminal"]_vars

\* A warm session after a warm-up run that raised and a measured run that
\* raised, whose report is in the capture buffer: the streams are the real
\* ones again.
C27_Witness ==
    /\ prog = "runner" /\ mode = "warm"
    /\ \E k \in WarmupCalls : calls[k].exc # "none"
    /\ calls # <<>> /\ Last(calls).kind = "measured" /\ Last(calls).exc # "none"
    /\ captured = <<Msg("Run failed")>>
    /\ stdout = "terminal" /\ stderr = "terminal"

\* C22: an exception raised by the target of a measurement primitive leaves
\* the primitive: the primitive does not return normally.
C22_PrimitivePropagatesTheTargetsException ==
    (fn \in {"benchmark_target.run_benchmark", "benchmark_engine.cold_benchmark",
             "stresstest.benchmark_engine.benchmark"}
       /\ pc = "returned" /\ args.beh.raises) =>
        result.exc # "none"

\* C23: a child process of a cold run calls the target exactly once; when the
\* target returns the child's text holds exactly one Memory field and exactly
\* one Time field, and when the target raises it holds neither, so that no
\* parse_output finds a record in it.
C23_ColdChildMeasuresOnce ==
    (fn \in {"benchmark_target.py", "benchmark_engine.py",
             "stresstest.benchmark_engine.py"}
       /\ pc = "returned") =>
        /\ result.invoked = 1
        /\ ~args.beh.raises =>
              /\ Cardinality(FieldsOf(result.output, "Memory", "MB")) = 1
              /\ Cardinality(FieldsOf(result.output, "Time", "s")) = 1
        /\ args.beh.raises =>
              /\ FieldsOf(result.output, "Memory", "MB") = {}
              /\ FieldsOf(result.output, "Time", "s") = {}
              /\ RunnerParseOutput(result.output) = None
              /\ BenchParseOutput(result.output) = <<>>

\* The calls a memory sample may be separated by from the forced collection
\* next to it: the reads of the clock.
ClockReads == {"time.perf_counter"}

\* The k-th call is next to a forced collection: a gc.collect before or after
\* it, with nothing but reads of the clock between the two.
NextToACollection(events, k) ==
    \E j \in DOMAIN events :
        /\ events[j] = "gc.collect"
        /\ \A m \in DOMAIN events :
              ((j < m /\ m < k) \/ (k < m /\ m < j)) => events[m] \in ClockReads

\* C24: every memory sample of benchmark_target.run_benchmark, the one before
\* the target is called and the one after, is taken next to a forced
\* garbage collection.
C24_EachMemorySampleHasAForcedCollection ==
    (fn = "benchmark_target.run_benchmark" /\ pc = "returned") =>
        \A k \in DOMAIN result.events :
            result.events[k] = "get_memory_usage_mb" =>
                NextToACollection(result.events, k)

\* C25: during a session of duckdb_polars_pandas/benchmark.py at most one
\* process holds results/benchmark_log.txt open for writing: while the
\* Logger of the parent holds it, no child opens it.
C25_OneWriterOfTheLogFile ==
    prog = "bench" => Cardinality(log_writers) <= 1

\* The parser of the child program f.
ParserOf(f) ==
    IF f = "stresstest.benchmark_engine.py" THEN StressEngineParser
    ELSE PandasStressEngineParser

\* C26: every argument vector a stress-test runner builds for its child,
\* for each test kind, is accepted by the parser of the child, so that the
\* child does not end in its argument parser.
C26_StressChildAcceptsTheParentsArgv ==
    (fn \in {"stresstest.benchmark_engine.py", "pandas_stresstest.benchmark_engine.py"}
       /\ pc = "returned") =>
        /\ ParseArgsAccepts(ParserOf(fn), args.argv)
        /\ result.status # 2

RECURSIVE Flatten(_)
Flatten(chunks) == IF chunks = <<>> THEN <<>> ELSE Head(chunks) \o Flatten(Tail(chunks))

\* The least number of chunks of at most c rows that hold R rows.
Ceil(R, c) == (R + c - 1) \div c

\* C29: the chunks insert passes to insert_chunk are consecutive pieces of
\* the table, in order and without overlap, each of 1 to chunk_size rows:
\* during the loop they hold the rows before batch_start, and when insert
\* returns they hold rows 0..R-1 once each, in ceil(R / chunk_size) chunks,
\* none for an empty table.
C29_InsertSplitsTheTableIntoChunks ==
    (loader # <<>> /\ loader.inserts > 0) =>
        /\ \A k \in DOMAIN loader.chunks :
              Len(loader.chunks[k]) \in 1..loader.chunk_size
        /\ \A k \in DOMAIN Flatten(loader.chunks) :
              Flatten(loader.chunks)[k] = loader.table[k]
        /\ (pc = "insert" /\ loader.batch_start < Len(loader.table)) =>
              Len(Flatten(loader.chunks)) = loader.batch_start
        /\ (pc = "idle" /\ exc = "none") =>
              /\ Flatten(loader.chunks) = loader.table
              /\ Len(loader.chunks) = Ceil(Len(loader.table), loader.chunk_size)

\* A table of 4 rows was inserted by a buffer of chunk_size 3: a chunk of 3
\* rows, then a chunk of 1.
C29_Witness ==
    /\ loader # <<>> /\ pc = "idle" /\ exc = "none"
    /\ loader.chunk_size = 3 /\ Len(loader.table) = 4
    /\ Len(loader.chunks) = 2
    /\ Len(loader.chunks[1]) = 3 /\ Len(loader.chunks[2]) = 1

\* C30: when no insert call is in progress, total_inserted is the number of
\* rows in the destination table, also after a call in which insert_chunk
\* failed on a later chunk.
C30_TotalInsertedCountsTheRowsInserted ==
    (loader # <<>> /\ pc = "idle") =>
        loader.total_inserted = Len(loader.destination)
====
